---- MODULE Spec2Model ----
(***************************************************************************)
(* Floquet calibration workflow of cirq.google.calibration.                *)
(*                                                                         *)
(*   Spec            floquet_characterization_for_circuit: the circuit     *)
(*                   partitioner with its request-merging loop, and the    *)
(*                   calls a caller chains through `initial`               *)
(*   SpecMoment      floquet_characterization_for_moment on its own        *)
(*   SpecRun         run_characterizations                                 *)
(*   SpecParameters  PhasedFSimParameters: merge_with, override_by         *)
(*   SpecSwapped     PhasedFSimParameters.parameters_for_qubits_swapped    *)
(*   SpecResult      PhasedFSimCalibrationResult.get_parameters            *)
(*   SpecCorrected   create_corrected_fsim_gate                            *)
(*   SpecCompensated phased_calibration_for_circuit                        *)
(*   SpecPairs       the classifier on its own and inside the partitioner  *)
(*   SpecParse       FloquetPhasedFSimCalibrationRequest.parse_result      *)
(*                                                                         *)
(* Python indices are kept 0-based (entries of moments_map, values of      *)
(* pairs_map); TLA+ sequences are 1-based, so calibrations[index] of the   *)
(* source is calibrations[index + 1] here.                                 *)
(***************************************************************************)
EXTENDS Integers, Sequences, FiniteSets, TLC

\* ---------------------------------------------------------------- bounds
NQ == 6          \* qubits of the line: LineQubit(0) .. LineQubit(NQ-1)
MaxSpan == 1     \* two-qubit operations act on qubits at most this far apart
MaxPairs == 2    \* two-qubit operations per generated moment
MaxMoments == 4  \* moments of the circuit of a call without `initial`
MaxInitial == 2  \* moments of a circuit whose result is passed on as `initial`
MaxChained == 2  \* moments of the circuit of a call with `initial`
MaxCalls == 2    \* chained calls of floquet_characterization_for_circuit

\* ------------------------------------------------------------ data model
None == -1                 \* the None entry of moments_map
NoGate == "None"           \* gate: Optional[FSimGate] = None

Qubits == 0 .. (NQ - 1)

Op(g, qs) == [gate |-> g, qubits |-> qs]

\* isinstance(op, GateOperation): GlobalPhaseOperation is an Operation that
\* is not a GateOperation.
IsGateOperation(op) == op.gate # "GlobalPhase"

IsMeasurementGate(g) == g = "Measure"

\* isinstance(op.gate, SingleQubitGate): X, Y, Z are; WaitGate derives from
\* Gate only (the source lists its support as still to be added).
IsSingleQubitGate_never(g) == FALSE

IsSingleQubitGate(g) == g \in {"X", "Y", "Z"}

\* The default translator: FSimGate(theta ~ pi/4, phi ~ 0) is mapped to the
\* canonical FSimGate(pi/4, 0); every other gate of the model (FSimGate with
\* theta = pi/8, CZ, WaitGate) falls through to None.
sqrt_iswap_gates_translator(g) == IF g = "FSimPi4" THEN "FSimPi4" ELSE NoGate

\* The translator of the tests: an FSimGate is returned as it is.
fsim_identity_converter(g) == IF g \in {"FSimPi4", "FSimPi8"} THEN g ELSE NoGate

Translators == {"sqrt_iswap", "identity"}

gates_translator_apply(tr, g) ==
    IF tr = "sqrt_iswap" THEN sqrt_iswap_gates_translator(g)
    ELSE fsim_identity_converter(g)

\* Python's order on tuples of qubits.
PairLess(p, q) == p[1] < q[1] \/ (p[1] = q[1] /\ p[2] < q[2])

\* sorted(list of pairs)
sorted(pairs) == SortSeq(pairs, PairLess)

\* sorted(set of pairs)
RECURSIVE sorted_set(_)
sorted_set(S) ==
    IF S = {} THEN <<>>
    ELSE LET least == CHOOSE p \in S : \A q \in S : p = q \/ PairLess(p, q)
         IN <<least>> \o sorted_set(S \ {least})

\* set(tuple)
SeqSet(s) == {s[i] : i \in 1 .. Len(s)}

sorted_qubits_as_given(qs) == qs

\* sorted(op.qubits) of a two-qubit operation
sorted_qubits(qs) == IF qs[1] <= qs[2] THEN qs ELSE <<qs[2], qs[1]>>

NoRequest == [gate |-> NoGate, gate_set |-> "", pairs |-> <<>>, options |-> ""]

\* ------------------------------------------------------ moment classifier
translation_failed_never(translated_gate) == FALSE

\* translated_gate is None
translation_failed(translated_gate) == translated_gate = NoGate

different_gates_never(gate, translated_gate) == FALSE

\* gate is not None and gate != translated_gate
different_gates(gate, translated_gate) == gate # NoGate /\ gate # translated_gate

mixed_moment_never(gate, measurement, single_qubit) == FALSE

\* gate is not None and (measurement or single_qubit)
mixed_moment(gate, measurement, single_qubit) ==
    gate # NoGate /\ (measurement \/ single_qubit)

ScanInit == [raised |-> FALSE, measurement |-> FALSE, single_qubit |-> FALSE,
             gate |-> NoGate, pairs |-> <<>>]

\* The loop over the operations of the moment, from operation i on.
RECURSIVE ScanMoment(_, _, _, _, _)
ScanMoment(moment, i, tr, canon, st) ==
    IF i > Len(moment) \/ st.raised THEN st
    ELSE LET op == moment[i] IN
         IF ~IsGateOperation(op) THEN [st EXCEPT !.raised = TRUE]
         ELSE IF IsMeasurementGate(op.gate)
              THEN ScanMoment(moment, i + 1, tr, canon, [st EXCEPT !.measurement = TRUE])
         ELSE IF IsSingleQubitGate(op.gate)
              THEN ScanMoment(moment, i + 1, tr, canon, [st EXCEPT !.single_qubit = TRUE])
         ELSE LET translated_gate == gates_translator_apply(tr, op.gate) IN
              IF translation_failed(translated_gate) THEN [st EXCEPT !.raised = TRUE]
              ELSE IF different_gates(st.gate, translated_gate)
                   THEN [st EXCEPT !.raised = TRUE]
              ELSE LET pair == IF canon THEN sorted_qubits(op.qubits) ELSE op.qubits
                   IN ScanMoment(moment, i + 1, tr, canon,
                                 [st EXCEPT !.gate = translated_gate,
                                            !.pairs = Append(@, pair)])

\* Result: raised (IncompatibleMomentError), or isNone (returns None), or a
\* request.
floquet_characterization_for_moment(moment, opts, gs, tr, canon, srt) ==
    LET st == ScanMoment(moment, 1, tr, canon, ScanInit) IN
    IF st.raised THEN [raised |-> TRUE, isNone |-> FALSE, request |-> NoRequest]
    ELSE IF st.gate = NoGate
         THEN [raised |-> FALSE, isNone |-> TRUE, request |-> NoRequest]
    ELSE IF mixed_moment(st.gate, st.measurement, st.single_qubit)
         THEN [raised |-> TRUE, isNone |-> FALSE, request |-> NoRequest]
    ELSE [raised |-> FALSE, isNone |-> FALSE,
          request |-> [gate |-> st.gate, gate_set |-> gs,
                       pairs |-> IF srt THEN sorted(st.pairs) ELSE st.pairs,
                       options |-> opts]]

\* ------------------------------------------------------- request helpers
\* PhasedFSimCalibrationRequest.qubit_pairs: a ChainMap of one {q: pair}
\* dictionary per pair; a lookup answers from the first dictionary that has
\* the key.
qubit_pairs_keys(pairs) == UNION {SeqSet(pairs[i]) : i \in 1 .. Len(pairs)}

qubit_pairs(pairs) ==
    [q \in qubit_pairs_keys(pairs) |->
        pairs[CHOOSE i \in 1 .. Len(pairs) :
                 /\ q \in SeqSet(pairs[i])
                 /\ \A j \in 1 .. (i - 1) : q \notin SeqSet(pairs[j])]]

qubit_pairs_agree_never(new_pairs, existing_pairs) == FALSE

qubit_pairs_agree_always(new_pairs, existing_pairs) == TRUE

\* The all(...) of merge_into_calibrations.
qubit_pairs_agree(new_pairs, existing_pairs) ==
    LET new_qubit_pairs == qubit_pairs(new_pairs)
        existing_qubit_pairs == qubit_pairs(existing_pairs)
    IN \A q \in (DOMAIN new_qubit_pairs) \cap (DOMAIN existing_qubit_pairs) :
          new_qubit_pairs[q] = existing_qubit_pairs[q]

\* pairs_map: a dict, kept as the sequence of its items in insertion order.
dict_has(d, key) == \E i \in 1 .. Len(d) : d[i].key = key

dict_get(d, key) == d[CHOOSE i \in 1 .. Len(d) : d[i].key = key].index

dict_set(d, key, index) ==
    IF dict_has(d, key)
    THEN [i \in 1 .. Len(d) |-> IF d[i].key = key THEN [key |-> key, index |-> index] ELSE d[i]]
    ELSE Append(d, [key |-> key, index |-> index])

\* ----------------------------------------------------------------- merge
append_if_missing(calibration, cals, pmap) ==
    IF ~dict_has(pmap, calibration.pairs)
    THEN [asserted |-> FALSE,
          calibrations |-> Append(cals, calibration),
          pairs_map |-> dict_set(pmap, calibration.pairs, Len(cals)),
          index |-> Len(cals)]
    ELSE [asserted |-> FALSE, calibrations |-> cals, pairs_map |-> pmap,
          index |-> dict_get(pmap, calibration.pairs)]

\* new_pairs.issubset(existing_pairs)
issubset(new_pairs, existing_pairs) == new_pairs \subseteq SeqSet(existing_pairs)

\* new_pairs.issuperset(existing_pairs)
issuperset(new_pairs, existing_pairs) == SeqSet(existing_pairs) \subseteq new_pairs

replace_calibration_noop(cals, index, calibration) == cals

\* calibrations[index] = calibration
replace_calibration(cals, index, calibration) ==
    [cals EXCEPT ![index + 1] = calibration]

merged_pairs_unsorted(new_pairs, existing_pairs) ==
    existing_pairs \o sorted_set(new_pairs \ SeqSet(existing_pairs))

\* tuple(sorted(new_pairs.union(existing_pairs)))
merged_pairs(new_pairs, existing_pairs) ==
    sorted_set(new_pairs \cup SeqSet(existing_pairs))

append_calibration_off_by_one(calibration, cals, pmap) ==
    [asserted |-> FALSE,
     calibrations |-> Append(cals, calibration),
     pairs_map |-> dict_set(pmap, calibration.pairs, Len(cals) + 1),
     index |-> Len(cals) + 1]

\* The tail of merge_into_calibrations: no request of the pool took the
\* candidate.
append_calibration(calibration, cals, pmap) ==
    [asserted |-> FALSE,
     calibrations |-> Append(cals, calibration),
     pairs_map |-> dict_set(pmap, calibration.pairs, Len(cals)),
     index |-> Len(cals)]

\* The loop of merge_into_calibrations over pairs_map.values(), from item k.
RECURSIVE merge_scan(_, _, _, _, _, _)
merge_scan(calibration, cals, pmap, k, gs, opts) ==
    IF k > Len(pmap)
    THEN append_calibration(calibration, cals, pmap)
    ELSE LET index == pmap[k].index
             existing == cals[index + 1]
             new_pairs == SeqSet(calibration.pairs)
             existing_pairs == existing.pairs
         IN IF \/ calibration.gate # existing.gate
               \/ calibration.gate_set # existing.gate_set
               \/ calibration.options # existing.options
            THEN [asserted |-> TRUE, calibrations |-> cals, pairs_map |-> pmap,
                  index |-> None]
            ELSE IF issubset(new_pairs, existing_pairs)
            THEN [asserted |-> FALSE, calibrations |-> cals, pairs_map |-> pmap,
                  index |-> index]
            ELSE IF issuperset(new_pairs, existing_pairs)
            THEN [asserted |-> FALSE,
                  calibrations |-> replace_calibration(cals, index, calibration),
                  pairs_map |-> pmap, index |-> index]
            ELSE IF qubit_pairs_agree(calibration.pairs, existing_pairs)
            THEN [asserted |-> FALSE,
                  calibrations |->
                      replace_calibration(cals, index,
                          [gate |-> calibration.gate, gate_set |-> gs,
                           pairs |-> merged_pairs(new_pairs, existing_pairs),
                           options |-> opts]),
                  pairs_map |-> pmap, index |-> index]
            ELSE merge_scan(calibration, cals, pmap, k + 1, gs, opts)

merge_into_calibrations_exact_only(calibration, cals, pmap, gs, opts) ==
    append_if_missing(calibration, cals, pmap)

merge_into_calibrations(calibration, cals, pmap, gs, opts) ==
    merge_scan(calibration, cals, pmap, 1, gs, opts)

\* ------------------------------------------------------- generated inputs
Pairs == {p \in Qubits \X Qubits : p[1] < p[2] /\ p[2] - p[1] <= MaxSpan}

IsMatching(S) ==
    \A p \in S : \A q \in S : p = q \/ SeqSet(p) \cap SeqSet(q) = {}

Layers == {S \in SUBSET Pairs : S # {} /\ Cardinality(S) <= MaxPairs /\ IsMatching(S)}

\* A moment of FSimGate(pi/4, 0) on the pairs of a layer, in ascending order.
FSimMoment(g, S) ==
    LET ps == sorted_set(S) IN [i \in 1 .. Len(ps) |-> Op(g, ps[i])]

\* The same operations listed last pair first, each on (high, low).
FSimMomentReversed(g, S) ==
    LET ps == sorted_set(S)
        n == Len(ps)
    IN [i \in 1 .. n |-> Op(g, <<ps[n + 1 - i][2], ps[n + 1 - i][1]>>)]

TwoQubitMoments ==
    {FSimMoment("FSimPi4", S) : S \in Layers}
      \cup {FSimMomentReversed("FSimPi4", {<<0, 1>>, <<2, 3>>})}
      \cup {FSimMoment("FSimPi8", {<<1, 2>>})}

OtherMoments ==
    { <<Op("X", <<0>>), Op("Y", <<2>>)>>,
      <<Op("Measure", <<0, 1>>)>>,
      <<Op("Wait", <<1>>)>>,
      <<Op("CZ", <<0, 1>>)>>,
      <<Op("FSimPi4", <<0, 1>>), Op("Z", <<2>>)>> }

Moments == TwoQubitMoments \cup OtherMoments

OptionsSet == {"ALL", "WITHOUT_CHI"}

GateSets == {"SQRT_ISWAP_GATESET"}

\* ------------------------------------------------------------------ state
VARIABLES
    status,          \* "idle" | "running" | "returned" | "raised" | "asserted"
    calls,           \* calls started so far
    merge_sub_sets,  \* arguments of the running call
    gates_translator,
    options,
    gate_set,
    initial,         \* the `initial` argument as the caller passed it
    circuit,         \* the moments of the circuit iterated so far in this call
    calibrations,    \* the local list `calibrations`
    moments_map,     \* the local list `moments_map`
    pairs_map,       \* the local dict `pairs_map`
    before,          \* the three locals as they were before the last iteration
    \* floquet_characterization_for_moment called on its own
    moment_arg,      \* the argument `moment`
    pairs_in_canonical_order,
    pairs_sorted,
    classified,      \* what the call did: raised, returned None, or a request
    \* run_characterizations
    run_status,      \* "idle" | "loop" | "progress" | "simulator" | "returned"
                     \*   | "ValueError" | "NameError" | "TypeError" | "EngineError"
    engine,
    processor_id,
    max_layers_per_request,
    progress_func,
    handler_name,    \* what the free name handler_name resolves to
    layer_arity,     \* arguments to_calibration_layer of the requests requires
    requests,        \* the local list `requests`: one list of layers per batch
    results,         \* the local list `results`
    backend_calls,   \* the batches handed to engine.run_calibration so far
    simulator_calls, \* calls of engine.get_calibrations so far
    progress_calls,  \* the argument pairs progress_func was called with so far
    \* PhasedFSimParameters
    self,
    other,
    merged,          \* the record computed from self and other, once computed
    swaps,           \* self with qubits swapped once, twice
    \* PhasedFSimCalibrationResult
    stored,          \* the dict `parameters` of the result
    query,           \* the qubits (a, b) asked for
    found,           \* get_parameters(a, b) and get_parameters(b, a), once called
    \* create_corrected_fsim_gate
    qubits,          \* the argument `qubits`: (a, b)
    translated_gate, \* the argument `gate`
    pair_parameters, \* the argument `parameters`
    characterization_index,
    corrected,       \* what the call did: raised, or the layers and their tags
    \* phased_calibration_for_circuit (its circuit is `circuit`)
    characterizations,
    moments_mapping,
    compensated,     \* what the call did: raised, or the circuit and its mapping
    \* FloquetPhasedFSimCalibrationRequest.parse_result
    floquet_request, \* the request `self`
    angles,          \* the (key, value) entries of result.metrics['angles']
    parsed           \* what the call did: raised, or the result

circuit_vars == <<status, calls, merge_sub_sets, initial, circuit, moments_map,
                  pairs_map, before>>

moment_vars == <<moment_arg, pairs_in_canonical_order, pairs_sorted, classified>>

run_vars == <<run_status, engine, processor_id, max_layers_per_request, progress_func,
              handler_name, layer_arity, requests, results, backend_calls,
              simulator_calls, progress_calls>>

parameters_vars == <<self, other, merged, swaps, stored, query, found>>

corrected_vars == <<qubits, translated_gate, pair_parameters, characterization_index,
                    corrected>>

compensated_vars == <<characterizations, moments_mapping, compensated>>

parse_vars == <<floquet_request, angles, parsed>>

vars == <<circuit_vars, gates_translator, options, gate_set, calibrations,
          moment_vars, run_vars, parameters_vars, corrected_vars, compensated_vars, parse_vars>>

NotClassified == [done |-> FALSE, raised |-> FALSE, isNone |-> FALSE, request |-> NoRequest]

\* PhasedFSimParameters(): every angle None.
NoParameters == [theta |-> None, zeta |-> None, chi |-> None, gamma |-> None, phi |-> None]

\* No call of floquet_characterization_for_moment on its own is under way.
MomentIdle ==
    /\ moment_arg = <<>>
    /\ pairs_in_canonical_order = FALSE
    /\ pairs_sorted = FALSE
    /\ classified = NotClassified

\* No call of run_characterizations is under way.
RunIdle ==
    /\ run_status = "idle"
    /\ engine = "None"
    /\ processor_id = "None"
    /\ max_layers_per_request = 1
    /\ progress_func = FALSE
    /\ handler_name = "unbound"
    /\ layer_arity = 1
    /\ requests = <<>>
    /\ results = <<>>
    /\ backend_calls = <<>>
    /\ simulator_calls = 0
    /\ progress_calls = <<>>

\* Optional[PhasedFSimParameters]: None
Nothing == [some |-> FALSE, value |-> NoParameters]

NotFound == [done |-> FALSE, ab |-> Nothing, ba |-> Nothing]

\* No result is being asked for parameters.
ResultIdle ==
    /\ stored = <<>>
    /\ query = <<0, 1>>
    /\ found = NotFound

\* No parameters are being combined.
ParametersIdle ==
    /\ self = NoParameters
    /\ other = NoParameters
    /\ merged = [done |-> FALSE, value |-> NoParameters]
    /\ swaps = <<>>
    /\ ResultIdle

NotCorrected == [done |-> FALSE, raised |-> "", layers |-> <<>>, tags |-> <<>>]

\* No call of create_corrected_fsim_gate on its own is under way.
CorrectedIdle ==
    /\ qubits = <<0, 1>>
    /\ translated_gate = NoGate
    /\ pair_parameters = NoParameters
    /\ characterization_index = None
    /\ corrected = NotCorrected

NotCompensated == [done |-> FALSE, raised |-> "", circuit |-> <<>>, new_mapping |-> <<>>]

\* No call of phased_calibration_for_circuit is under way.
CompensatedIdle ==
    /\ characterizations = <<>>
    /\ moments_mapping = <<>>
    /\ compensated = NotCompensated

NotParsed == [done |-> FALSE, raised |-> "", result |-> <<>>]

\* No call of parse_result is under way.
ParseIdle ==
    /\ floquet_request = NoRequest
    /\ angles = <<>>
    /\ parsed = NotParsed

Locals == [calibrations |-> calibrations, moments_map |-> moments_map,
           pairs_map |-> pairs_map]

\* No call of floquet_characterization_for_circuit is under way.
CircuitIdle ==
    /\ status = "idle"
    /\ calls = 0
    /\ merge_sub_sets = TRUE
    /\ initial = [given |-> FALSE, requests |-> <<>>, map |-> <<>>]
    /\ circuit = <<>>
    /\ moments_map = <<>>
    /\ pairs_map = <<>>
    /\ before = [calibrations |-> <<>>, moments_map |-> <<>>, pairs_map |-> <<>>]

Init ==
    /\ CircuitIdle
    /\ gates_translator = "sqrt_iswap"
    /\ options = "WITHOUT_CHI"
    /\ gate_set = "SQRT_ISWAP_GATESET"
    /\ calibrations = <<>>
    /\ MomentIdle
    /\ RunIdle
    /\ ParametersIdle
    /\ CorrectedIdle
    /\ CompensatedIdle
    /\ ParseIdle

unpack_initial_map_afresh(init) ==
    [calibrations |-> IF init.given THEN init.requests ELSE <<>>, moments_map |-> <<>>]

\* if initial is None: calibrations = []; moments_map = []
\* else: calibrations, moments_map = initial
unpack_initial(init) ==
    IF ~init.given
    THEN [calibrations |-> <<>>, moments_map |-> <<>>]
    ELSE [calibrations |-> init.requests, moments_map |-> init.map]

\* A call of floquet_characterization_for_circuit starts: the first call has
\* no `initial`, a later one is given the lists the previous call returned.
\* With `initial` the two locals are the caller's lists themselves.
Start(merge, tr, opts, gs) ==
    /\ \/ status = "idle" /\ opts = "WITHOUT_CHI"
       \/ status = "returned" /\ Len(circuit) <= MaxInitial /\ tr = gates_translator
    /\ calls < MaxCalls
    /\ status' = "running"
    /\ calls' = calls + 1
    /\ merge_sub_sets' = merge
    /\ gates_translator' = tr
    /\ options' = opts
    /\ gate_set' = gs
    /\ initial' = [given |-> status = "returned",
                   requests |-> calibrations, map |-> moments_map]
    /\ circuit' = <<>>
    /\ pairs_map' = <<>>
    /\ calibrations' = unpack_initial(initial').calibrations
    /\ moments_map' = unpack_initial(initial').moments_map
    /\ before' = [calibrations |-> calibrations', moments_map |-> moments_map',
                  pairs_map |-> <<>>]
    /\ UNCHANGED <<moment_vars, run_vars, parameters_vars, corrected_vars, compensated_vars, parse_vars>>

\* One iteration of `for moment in circuit`.
Iterate(moment) ==
    /\ status = "running"
    /\ Len(circuit) < (IF initial.given THEN MaxChained ELSE MaxMoments)
    /\ circuit' = Append(circuit, moment)
    /\ before' = Locals
    /\ LET res == floquet_characterization_for_moment(
                      moment, options, gate_set, gates_translator, TRUE, TRUE)
       IN IF res.raised
          THEN /\ status' = "raised"
               /\ UNCHANGED <<calibrations, moments_map, pairs_map>>
          ELSE IF res.isNone
          THEN /\ moments_map' = Append(moments_map, None)
               /\ UNCHANGED <<status, calibrations, pairs_map>>
          ELSE LET out == IF merge_sub_sets
                          THEN merge_into_calibrations(res.request, calibrations,
                                                       pairs_map, gate_set, options)
                          ELSE append_if_missing(res.request, calibrations, pairs_map)
               IN IF out.asserted
                  THEN /\ status' = "asserted"
                       /\ UNCHANGED <<calibrations, moments_map, pairs_map>>
                  ELSE /\ calibrations' = out.calibrations
                       /\ pairs_map' = out.pairs_map
                       /\ moments_map' = Append(moments_map, out.index)
                       /\ UNCHANGED status
    /\ UNCHANGED <<calls, merge_sub_sets, gates_translator, options, gate_set, initial>>
    /\ UNCHANGED <<moment_vars, run_vars, parameters_vars, corrected_vars, compensated_vars, parse_vars>>

\* The loop ends and the call returns (calibrations, moments_map).
Return ==
    /\ status = "running"
    /\ status' = "returned"
    /\ UNCHANGED <<calls, merge_sub_sets, gates_translator, options, gate_set, initial,
                   circuit, calibrations, moments_map, pairs_map, before>>
    /\ UNCHANGED <<moment_vars, run_vars, parameters_vars, corrected_vars, compensated_vars, parse_vars>>

Next ==
    \/ \E merge \in BOOLEAN, tr \in Translators, opts \in OptionsSet, gs \in GateSets :
          Start(merge, tr, opts, gs)
    \/ \E moment \in Moments : Iterate(moment)
    \/ Return

Spec == Init /\ [][Next]_vars

\* ------------------------------------------------- vocabulary of the claims
\* The last iteration of the running call ended without an exception.
Completed == status \in {"running", "returned"} /\ Len(circuit) > 0

LastMoment == circuit[Len(circuit)]

LastIndex == moments_map[Len(moments_map)]

IsTwoQubitOp(op) == Len(op.qubits) = 2 /\ op.gate # "Measure"

HasTwoQubitOp(moment) == \E i \in 1 .. Len(moment) : IsTwoQubitOp(moment[i])

LowHigh(qs) == IF qs[1] < qs[2] THEN <<qs[1], qs[2]>> ELSE <<qs[2], qs[1]>>

\* The canonical pair-set of a moment.
CanonicalPairs(moment) ==
    {LowHigh(moment[i].qubits) : i \in {j \in 1 .. Len(moment) : IsTwoQubitOp(moment[j])}}

LastLayer == CanonicalPairs(LastMoment)

PairsOf(request) == SeqSet(request.pairs)

\* Some qubit is paired with one partner in P and with another in R.
Conflicting(P, R) ==
    \E p \in P : \E r \in R : p # r /\ SeqSet(p) \cap SeqSet(r) # {}

Ascending(ps) == \A i \in 1 .. (Len(ps) - 1) : PairLess(ps[i], ps[i + 1])

IsSortedTupleOf(ps, S) ==
    SeqSet(ps) = S /\ Len(ps) = Cardinality(S) /\ Ascending(ps)

\* The 0-based indices of the requests appended during the running call.
CallIndices(cals) == Len(initial.requests) .. (Len(cals) - 1)

\* The requests of the call that the layer does not conflict with.
FoldTargets(L, cals) ==
    {i \in CallIndices(cals) : ~Conflicting(L, PairsOf(cals[i + 1]))}

\* The last iteration processed a two-qubit layer with merging enabled, and
\* some request appended earlier in the call does not conflict with it.
LastFolded ==
    /\ Completed
    /\ merge_sub_sets
    /\ HasTwoQubitOp(LastMoment)
    /\ FoldTargets(LastLayer, before.calibrations) # {}

\* The lowest such index, and the request there before the iteration.
FoldTarget ==
    LET S == FoldTargets(LastLayer, before.calibrations)
    IN CHOOSE i \in S : \A j \in S : i <= j

FoldTargetPairs == PairsOf(before.calibrations[FoldTarget + 1])

PairsList(cals) == [i \in 1 .. Len(cals) |-> cals[i].pairs]

\* ---------------------------------------------------------------------- C1
C1Circuit ==
    << <<Op("X", <<0>>), Op("Y", <<2>>)>>,
       <<Op("FSimPi4", <<0, 1>>), Op("FSimPi4", <<2, 3>>)>>,
       <<Op("FSimPi4", <<1, 2>>)>>,
       <<Op("Wait", <<1>>)>> >>

\* C1: on the circuit [X(a),Y(c)], [FSim(a,b),FSim(c,d)], [FSim(b,c)],
\* [Wait(b)], with merging enabled, the default translator and no `initial`,
\* the call does not raise and returns the requests ((a,b),(c,d)) and
\* ((b,c),) with the index map [None, 0, 1, None].
C1_EndToEnd ==
    (/\ ~initial.given
     /\ merge_sub_sets
     /\ gates_translator = "sqrt_iswap"
     /\ circuit = C1Circuit)
    => /\ status \notin {"raised", "asserted"}
       /\ status = "returned" =>
            /\ PairsList(calibrations) = << <<(<<0, 1>>), (<<2, 3>>)>>, <<(<<1, 2>>)>> >>
            /\ moments_map = <<None, 0, 1, None>>

\* ---------------------------------------------------------------------- C2
\* C2 as stated: with merging enabled, a layer whose pair-set is a subset of
\* the pair-set of any request already in the list leaves the list as it was
\* and is mapped to a request that contains all its pairs.
C2_SubsetOfAnyRequest ==
    (/\ Completed
     /\ merge_sub_sets
     /\ HasTwoQubitOp(LastMoment)
     /\ \E i \in 1 .. Len(before.calibrations) :
           LastLayer \subseteq PairsOf(before.calibrations[i]))
    => /\ calibrations = before.calibrations
       /\ LastIndex # None
       /\ LastIndex < Len(calibrations)
       /\ LastLayer \subseteq PairsOf(calibrations[LastIndex + 1])

\* C2 amended: with merging enabled, when a layer's pair-set is a subset of
\* a request appended earlier in the same call and the layer conflicts with
\* every request appended before that one in the call, the layer is mapped
\* to that request's index and the request list is left exactly as it was.
C2_SubsetOfFoldTarget ==
    (LastFolded /\ LastLayer \subseteq FoldTargetPairs)
    => /\ calibrations = before.calibrations
       /\ moments_map = Append(before.moments_map, FoldTarget)
       /\ LastLayer \subseteq PairsOf(calibrations[FoldTarget + 1])

\* A strict subset of the second request of the call is reused there.
C2_Witness ==
    /\ LastFolded
    /\ LastLayer \subseteq FoldTargetPairs
    /\ LastLayer # FoldTargetPairs
    /\ FoldTarget > Len(initial.requests)
    /\ LastIndex = FoldTarget

\* ---------------------------------------------------------------------- C3
\* C3: with merging enabled, when the request a layer is folded into has a
\* pair-set that is a strict subset of the layer's, the request at that index
\* becomes the layer's request (its pairs are the layer's pairs, sorted), the
\* list keeps its length, the layer is mapped to that index and the earlier
\* entries of the map are unchanged.
C3_SupersetReplaces ==
    (/\ LastFolded
     /\ FoldTargetPairs \subseteq LastLayer
     /\ FoldTargetPairs # LastLayer)
    => /\ IsSortedTupleOf(calibrations[FoldTarget + 1].pairs, LastLayer)
       /\ Len(calibrations) = Len(before.calibrations)
       /\ moments_map = Append(before.moments_map, FoldTarget)

\* A request was replaced by a strict superset while an earlier layer was
\* already mapped to it.
C3_Witness ==
    /\ LastFolded
    /\ FoldTargetPairs \subseteq LastLayer
    /\ FoldTargetPairs # LastLayer
    /\ \E i \in 1 .. Len(before.moments_map) : before.moments_map[i] = FoldTarget
    /\ PairsOf(calibrations[FoldTarget + 1]) = LastLayer

C5_ExactMatchOnly ==
    (/\ Completed
     /\ ~merge_sub_sets
     /\ HasTwoQubitOp(LastMoment))
    => LET same == {i \in 1 .. Len(before.calibrations) :
                       IsSortedTupleOf(before.calibrations[i].pairs, LastLayer)}
       IN IF same # {}
          THEN /\ calibrations = before.calibrations
               /\ LastIndex + 1 \in same
          ELSE /\ Len(calibrations) = Len(before.calibrations) + 1
               /\ SubSeq(calibrations, 1, Len(before.calibrations)) = before.calibrations
               /\ IsSortedTupleOf(calibrations[Len(calibrations)].pairs, LastLayer)
               /\ LastIndex = Len(before.calibrations)

\* ---------------------------------------------------------------------- C6
\* C6: with merging enabled, a layer that is a subset of, a superset of, or
\* compatible with a request passed in through `initial` (one of the same
\* gate) is folded into a request of the list instead of being appended.
C6_InitialRequestsAreFoldTargets ==
    (/\ Completed
     /\ merge_sub_sets
     /\ initial.given
     /\ HasTwoQubitOp(LastMoment)
     /\ \E i \in 1 .. Len(initial.requests) :
           /\ ~Conflicting(LastLayer, PairsOf(before.calibrations[i]))
           /\ before.calibrations[i].gate = calibrations[LastIndex + 1].gate)
    => /\ Len(calibrations) = Len(before.calibrations)
       /\ LastIndex < Len(before.calibrations)

\* ---------------------------------------------------------------------- C7
\* C7: a call given `initial` returns an index map for its own circuit alone:
\* one entry per moment of that circuit, each entry None or an index into
\* the returned request list.
C7_MapOfNewCircuitAlone ==
    (status = "returned" /\ initial.given)
    => /\ Len(moments_map) = Len(circuit)
       /\ \A i \in 1 .. Len(moments_map) :
             moments_map[i] = None
               \/ (0 <= moments_map[i] /\ moments_map[i] < Len(calibrations))

\* ---------------------------------------------------------------------- C8
TwoQubitLayers == {CanonicalPairs(circuit[i]) :
                      i \in {j \in 1 .. Len(circuit) : HasTwoQubitOp(circuit[j])}}

\* Some list of n requests, each of qubit-disjoint pairs, covers every
\* two-qubit layer of the circuit.
CoverExists(n) ==
    \E f \in [TwoQubitLayers -> 1 .. n] :
       \A c \in 1 .. n : IsMatching(UNION {L \in TwoQubitLayers : f[L] = c})

\* C8 as stated: the list returned with merging enabled is minimal, no
\* shorter list of requests of qubit-disjoint pairs covers every layer.
C8_Minimal ==
    (status = "returned" /\ merge_sub_sets /\ ~initial.given /\ Len(calibrations) > 0)
    => ~CoverExists(Len(calibrations) - 1)

\* C8 amended: the list built with merging enabled is irreducible rather
\* than minimal: every two requests appended during the call conflict (some
\* qubit is paired with different partners in them), so no two of them can be
\* merged into one, and the call appends at most one request per two-qubit
\* layer; a shorter list can exist.
C8_Irreducible ==
    (status \in {"running", "returned"} /\ merge_sub_sets)
    => /\ \A i \in CallIndices(calibrations) : \A j \in CallIndices(calibrations) :
             i # j => Conflicting(PairsOf(calibrations[i + 1]),
                                  PairsOf(calibrations[j + 1]))
       /\ Len(calibrations) - Len(initial.requests) <= Cardinality(TwoQubitLayers)

\* Three requests were built from four layers that two requests cover.
C8_Witness ==
    /\ status = "returned"
    /\ merge_sub_sets
    /\ ~initial.given
    /\ Len(calibrations) = 3
    /\ CoverExists(2)

\* ---------------------------------------------------------------------- C9
\* C9: with merging enabled or disabled, no qubit occurs in more than one
\* pair of a request of the list.
C9_RequestsAreMatchings ==
    \A i \in 1 .. Len(calibrations) :
       /\ IsMatching(PairsOf(calibrations[i]))
       /\ Len(calibrations[i].pairs) = Cardinality(PairsOf(calibrations[i]))

\* A union made a request of three pairs out of a request and a layer that
\* share a pair.
C9_Witness ==
    /\ LastFolded
    /\ LastLayer \cap FoldTargetPairs # {}
    /\ Len(calibrations[FoldTarget + 1].pairs) = 3
    /\ Len(before.calibrations[FoldTarget + 1].pairs) = 2

\* --------------------------------------------------------------------- C10
\* C10: the call adds one map entry per moment of its circuit, in order; the
\* entry is None exactly when the moment has no two-qubit operation, and
\* otherwise an index into the request list.
C10_OneEntryPerMoment ==
    status \in {"running", "returned"}
    => /\ Len(moments_map) = Len(initial.map) + Len(circuit)
       /\ \A i \in 1 .. Len(circuit) :
             LET entry == moments_map[Len(initial.map) + i]
             IN /\ (entry = None) <=> ~HasTwoQubitOp(circuit[i])
                /\ entry # None => (0 <= entry /\ entry < Len(calibrations))

\* A returned map with a None entry and an index entry.
C10_Witness ==
    /\ status = "returned"
    /\ Len(circuit) >= 3
    /\ \E i \in 1 .. Len(circuit) : moments_map[i] = None
    /\ \E i \in 1 .. Len(circuit) : moments_map[i] = 1

\* ------------------------------ floquet_characterization_for_moment alone
MaxOps == 3      \* operations of a generated moment

\* The operations generated moments are made of.
MomentOps ==
    { Op("Measure", <<4>>), Op("Measure", <<4, 5>>), Op("X", <<5>>), Op("Y", <<4>>),
      Op("FSimPi4", <<0, 1>>), Op("FSimPi4", <<3, 2>>), Op("FSimPi8", <<2, 3>>),
      Op("CZ", <<2, 3>>), Op("Wait", <<5>>), Op("GlobalPhase", <<>>) }

\* Moment(operations) accepts operations on disjoint qubits only.
IsMoment(ops) ==
    \A i \in 1 .. Len(ops) : \A j \in 1 .. Len(ops) :
        i = j \/ SeqSet(ops[i].qubits) \cap SeqSet(ops[j].qubits) = {}

GeneratedMoments ==
    {ops \in UNION {[1 .. n -> MomentOps] : n \in 0 .. MaxOps} : IsMoment(ops)}

\* The arguments of one call of floquet_characterization_for_moment.
InitMoment ==
    /\ CircuitIdle
    /\ RunIdle
    /\ ParametersIdle
    /\ CorrectedIdle
    /\ CompensatedIdle
    /\ ParseIdle
    /\ calibrations = <<>>
    /\ moment_arg \in GeneratedMoments
    /\ options \in OptionsSet
    /\ gate_set \in GateSets
    /\ gates_translator \in Translators
    /\ pairs_in_canonical_order \in BOOLEAN
    /\ pairs_sorted \in BOOLEAN
    /\ classified = NotClassified

\* The call runs to its return or its raise.
Classify ==
    /\ ~classified.done
    /\ LET res == floquet_characterization_for_moment(
                      moment_arg, options, gate_set, gates_translator,
                      pairs_in_canonical_order, pairs_sorted)
       IN classified' = [done |-> TRUE, raised |-> res.raised, isNone |-> res.isNone,
                         request |-> res.request]
    /\ UNCHANGED <<moment_arg, pairs_in_canonical_order, pairs_sorted>>
    /\ UNCHANGED <<circuit_vars, gates_translator, options, gate_set, calibrations,
                   run_vars, parameters_vars, corrected_vars, compensated_vars, parse_vars>>

NextMoment == Classify

SpecMoment == InitMoment /\ [][NextMoment]_vars

\* ---- vocabulary of the classifier claims
IsMeasurementOp(op) == op.gate = "Measure"

IsSingleQubitOp(op) == op.gate \in {"X", "Y", "Z"}

\* A gate operation that is neither a measurement nor a single-qubit gate.
IsOtherGateOp(op) ==
    op.gate # "GlobalPhase" /\ ~IsMeasurementOp(op) /\ ~IsSingleQubitOp(op)

\* Such an operation for which the translator of the call returns a gate.
IsTranslatableOp(op) ==
    IsOtherGateOp(op) /\ gates_translator_apply(gates_translator, op.gate) # NoGate

\* An operation that is not a gate operation, or a gate the translator
\* returns None for.
IsUnsupportedOp(op) ==
    \/ op.gate = "GlobalPhase"
    \/ IsOtherGateOp(op) /\ gates_translator_apply(gates_translator, op.gate) = NoGate

ArgIndices == 1 .. Len(moment_arg)

C12_MixedMomentRaises ==
    ( /\ classified.done
      /\ \E i \in ArgIndices : IsTranslatableOp(moment_arg[i])
      /\ \E i \in ArgIndices :
            IsMeasurementOp(moment_arg[i]) \/ IsSingleQubitOp(moment_arg[i]) )
    => classified.raised /\ ~classified.isNone /\ classified.request = NoRequest

\* A single-qubit gate listed before the only two-qubit gate: nothing in the
\* loop raises, the check after the loop does.
C12_Witness ==
    /\ classified.done
    /\ classified.raised
    /\ Len(moment_arg) = 2
    /\ IsSingleQubitOp(moment_arg[1])
    /\ IsTranslatableOp(moment_arg[2])

\* C13: a moment with an operation that is not a gate operation, or with a
\* gate other than a measurement or a single-qubit gate that the translator
\* has no canonical gate for, raises IncompatibleMomentError whatever else
\* the moment holds and wherever the operation stands.
C13_UnsupportedOperationRaises ==
    (classified.done /\ \E i \in ArgIndices : IsUnsupportedOp(moment_arg[i]))
    => classified.raised /\ ~classified.isNone /\ classified.request = NoRequest

\* The unsupported gate stands last, after a translatable two-qubit gate.
C13_Witness ==
    /\ classified.done
    /\ classified.raised
    /\ Len(moment_arg) >= 2
    /\ IsTranslatableOp(moment_arg[1])
    /\ IsOtherGateOp(moment_arg[Len(moment_arg)])
    /\ IsUnsupportedOp(moment_arg[Len(moment_arg)])

\* C14: two two-qubit operations translated to different canonical gates
\* raise IncompatibleMomentError, and a request that is returned carries the
\* one canonical gate every two-qubit operation of the moment translated to.
C14_OneCanonicalGate ==
    classified.done =>
      /\ (\E i \in ArgIndices : \E j \in ArgIndices :
             /\ IsTranslatableOp(moment_arg[i])
             /\ IsTranslatableOp(moment_arg[j])
             /\ gates_translator_apply(gates_translator, moment_arg[i].gate)
                  # gates_translator_apply(gates_translator, moment_arg[j].gate))
         => classified.raised /\ classified.request = NoRequest
      /\ (~classified.raised /\ ~classified.isNone)
         => /\ classified.request.gate # NoGate
            /\ \A i \in ArgIndices :
                  /\ IsOtherGateOp(moment_arg[i])
                  /\ gates_translator_apply(gates_translator, moment_arg[i].gate)
                       = classified.request.gate

\* FSimGate(pi/4, 0) and FSimGate(pi/8, 0) in one moment under the translator
\* that returns each as it is.
C14_Witness ==
    /\ classified.done
    /\ classified.raised
    /\ \E i \in ArgIndices : \E j \in ArgIndices :
          /\ IsTranslatableOp(moment_arg[i])
          /\ IsTranslatableOp(moment_arg[j])
          /\ gates_translator_apply(gates_translator, moment_arg[i].gate)
               # gates_translator_apply(gates_translator, moment_arg[j].gate)

\* -------------------------------------------------- run_characterizations
MaxRequests == 3   \* requests of a generated list
MaxLayers == 3     \* largest max_layers_per_request drawn

RunGateSets == {"SQRT_ISWAP_GATESET", "FSIM_GATESET"}

\* engine: an Engine, a PhasedFSimEngineSimulator, or neither (None).
Engines == {"Engine", "PhasedFSimEngineSimulator", "None"}

ProcessorIds == {"None", "qproc"}

\* handler_name is neither a parameter nor a local of run_characterizations
\* and the module binds no such name: the lookup raises NameError ("unbound")
\* unless the program that imported the module has bound the name in it, to
\* None or to a name.
HandlerNames == {"unbound", "None", "handler"}

\* Required arguments of to_calibration_layer of the requests of the list:
\* 1 for FloquetPhasedFSimCalibrationRequest (handler_name), 0 for a request
\* class that gives the argument a default.
LayerArities == {0, 1}

\* The request at 0-based position i of a generated list.
RunRequest(i, gs, opts) ==
    [gate |-> "FSimPi4", gate_set |-> gs, pairs |-> << <<i, i + 1>> >>, options |-> opts]

RequestLists ==
    UNION { { [i \in 1 .. n |-> RunRequest(i - 1, c[i][1], c[i][2])] :
                c \in [1 .. n -> RunGateSets \X OptionsSet] } : n \in 0 .. MaxRequests }

\* FloquetPhasedFSimCalibrationRequest.to_calibration_layer
to_calibration_layer(calibration) ==
    [calibration_type |-> "floquet_phased_fsim_characterization",
     program |-> [gate |-> calibration.gate, pairs |-> calibration.pairs],
     args |-> calibration.options]

\* The raw result the backend returns for a layer: the angles the layer asks
\* for, estimated for the pairs of its program.
calibration_result(layer) == [pairs |-> layer.program.pairs, estimated |-> layer.args]

\* job.calibration_results() of the job of one batch: one result per layer.
calibration_results(request) ==
    [i \in 1 .. Len(request) |-> calibration_result(request[i])]

\* FloquetPhasedFSimCalibrationRequest.parse_result: the parameters come from
\* the raw result; gate, gate_set and options from the request that parses.
parse_result(calibration, result) ==
    [parameters |-> result, gate |-> calibration.gate,
     gate_set |-> calibration.gate_set, options |-> calibration.options]

\* engine.get_calibrations(calibrations) of the simulator: one result per
\* request.
get_calibrations(cals) ==
    [i \in 1 .. Len(cals) |->
        parse_result(cals[i], calibration_result(to_calibration_layer(cals[i])))]

invalid_max_layers(m) == m < 1

no_calibrations_never(cals) == FALSE

\* not calibrations
no_calibrations(cals) == Len(cals) = 0

single_gate_set_always(cals) == TRUE

\* all(gate_set == other for other in gate_sets), gate_set = gate_sets[0]
single_gate_set(cals) ==
    \A i \in 1 .. Len(cals) : cals[1].gate_set = cals[i].gate_set

Min(a, b) == IF a <= b THEN a ELSE b

\* calibrations[offset:offset + m]
slice(cals, offset, m) == SubSeq(cals, offset + 1, Min(offset + m, Len(cals)))

\* len(range(0, n, m))
range_len(n, m) == (n + m - 1) \div m

batches_reversed(cals, m) ==
    LET count == range_len(Len(cals), m)
    IN [k \in 1 .. count |->
           LET batch == slice(cals, (count - k) * m, m)
           IN [j \in 1 .. Len(batch) |-> to_calibration_layer(batch[j])]]

\* The list `requests`: the layers of calibrations[offset:offset + m] for
\* offset in range(0, len(calibrations), m).
batches(cals, m) ==
    [k \in 1 .. range_len(Len(cals), m) |->
        LET batch == slice(cals, (k - 1) * m, m)
        IN [j \in 1 .. Len(batch) |-> to_calibration_layer(batch[j])]]

\* [calibration.parse_result(result)
\*  for calibration, result in zip(calibrations, request_results)]
zip_parse(cals, request_results) ==
    [i \in 1 .. Min(Len(cals), Len(request_results)) |->
        parse_result(cals[i], request_results[i])]

progress_args_swapped(res, cals) == <<Len(cals), Len(res)>>

\* progress_func(len(results), len(calibrations))
progress_args(res, cals) == <<Len(res), Len(cals)>>

\* The same checks with the empty list answered before the batch size.
run_entry_empty_first(cals, eng, pid, m, hn, arity) ==
    IF no_calibrations(cals) THEN "returned"
    ELSE IF invalid_max_layers(m) THEN "ValueError"
    ELSE IF ~single_gate_set(cals) THEN "ValueError"
    ELSE IF eng = "Engine"
         THEN IF pid = "None" THEN "ValueError"
              ELSE IF hn = "unbound" THEN "NameError"
              ELSE IF hn = "None" THEN "ValueError"
              ELSE IF arity > 0 THEN "TypeError"
              ELSE "loop"
    ELSE IF eng = "PhasedFSimEngineSimulator" THEN "simulator"
    ELSE "ValueError"

\* Where the call stands once everything before the first call of the engine
\* has run: it has raised, it has returned [], or it is about to call the
\* engine.
run_entry(cals, eng, pid, m, hn, arity) ==
    IF invalid_max_layers(m) THEN "ValueError"
    ELSE IF no_calibrations(cals) THEN "returned"
    ELSE IF ~single_gate_set(cals) THEN "ValueError"
    ELSE IF eng = "Engine"
         THEN IF pid = "None" THEN "ValueError"
              ELSE IF hn = "unbound" THEN "NameError"
              ELSE IF hn = "None" THEN "ValueError"
              ELSE IF arity > 0 THEN "TypeError"
              ELSE "loop"
    ELSE IF eng = "PhasedFSimEngineSimulator" THEN "simulator"
    ELSE "ValueError"

\* The call with these arguments, up to its first call of the engine, or to
\* its return or raise when that comes first.
Enter(cals, eng, pid, m, pf, hn, arity) ==
    /\ calibrations' = cals
    /\ engine' = eng
    /\ processor_id' = pid
    /\ max_layers_per_request' = m
    /\ progress_func' = pf
    /\ handler_name' = hn
    /\ layer_arity' = arity
    /\ run_status' = run_entry(cals, eng, pid, m, hn, arity)
    /\ requests' = IF run_entry(cals, eng, pid, m, hn, arity) = "loop"
                   THEN batches(cals, m) ELSE <<>>
    /\ results' = <<>>
    /\ backend_calls' = <<>>
    /\ simulator_calls' = 0
    /\ progress_calls' = <<>>
    /\ UNCHANGED <<circuit_vars, gates_translator, options, gate_set, moment_vars,
                   parameters_vars, corrected_vars, compensated_vars, parse_vars>>

\* run_characterizations is called.
RunCall ==
    /\ run_status = "idle"
    /\ \E cals \in RequestLists, eng \in Engines, pid \in ProcessorIds,
          m \in 0 .. MaxLayers, pf \in BOOLEAN, hn \in HandlerNames,
          arity \in LayerArities :
          Enter(cals, eng, pid, m, pf, hn, arity)

\* One batch: engine.run_calibration, job.calibration_results() and the
\* parse of the results.
RunCalibration ==
    /\ run_status = "loop"
    /\ Len(backend_calls) < Len(requests)
    /\ LET request == requests[Len(backend_calls) + 1]
           request_results == calibration_results(request)
       IN /\ backend_calls' = Append(backend_calls, request)
          /\ results' = results \o zip_parse(calibrations, request_results)
    /\ run_status' = "progress"
    /\ UNCHANGED <<engine, processor_id, max_layers_per_request, progress_func,
                   handler_name, layer_arity, requests, simulator_calls, progress_calls>>
    /\ UNCHANGED <<circuit_vars, gates_translator, options, gate_set, calibrations,
                   moment_vars, parameters_vars, corrected_vars, compensated_vars, parse_vars>>

\* One batch whose backend call raises: engine.run_calibration was handed the
\* batch, it or job.calibration_results() raises, and nothing in the loop
\* catches the exception.
RunCalibrationFails ==
    /\ run_status = "loop"
    /\ Len(backend_calls) < Len(requests)
    /\ backend_calls' = Append(backend_calls, requests[Len(backend_calls) + 1])
    /\ run_status' = "EngineError"
    /\ UNCHANGED <<engine, processor_id, max_layers_per_request, progress_func,
                   handler_name, layer_arity, requests, results, simulator_calls,
                   progress_calls>>
    /\ UNCHANGED <<circuit_vars, gates_translator, options, gate_set, calibrations,
                   moment_vars, parameters_vars, corrected_vars, compensated_vars, parse_vars>>

\* if progress_func: progress_func(len(results), len(calibrations))
Progress ==
    /\ run_status = "progress"
    /\ progress_calls' = IF progress_func
                         THEN Append(progress_calls, progress_args(results, calibrations))
                         ELSE progress_calls
    /\ run_status' = "loop"
    /\ UNCHANGED <<engine, processor_id, max_layers_per_request, progress_func,
                   handler_name, layer_arity, requests, results, backend_calls,
                   simulator_calls>>
    /\ UNCHANGED <<circuit_vars, gates_translator, options, gate_set, calibrations,
                   moment_vars, parameters_vars, corrected_vars, compensated_vars, parse_vars>>

\* results = engine.get_calibrations(calibrations); return results
GetCalibrations ==
    /\ run_status = "simulator"
    /\ simulator_calls' = simulator_calls + 1
    /\ results' = get_calibrations(calibrations)
    /\ run_status' = "returned"
    /\ UNCHANGED <<engine, processor_id, max_layers_per_request, progress_func,
                   handler_name, layer_arity, requests, backend_calls, progress_calls>>
    /\ UNCHANGED <<circuit_vars, gates_translator, options, gate_set, calibrations,
                   moment_vars, parameters_vars, corrected_vars, compensated_vars, parse_vars>>

\* The loop over the batches is over: return results.
RunReturn ==
    /\ run_status = "loop"
    /\ Len(backend_calls) = Len(requests)
    /\ run_status' = "returned"
    /\ UNCHANGED <<engine, processor_id, max_layers_per_request, progress_func,
                   handler_name, layer_arity, requests, results, backend_calls,
                   simulator_calls, progress_calls>>
    /\ UNCHANGED <<circuit_vars, gates_translator, options, gate_set, calibrations,
                   moment_vars, parameters_vars, corrected_vars, compensated_vars, parse_vars>>

NextRun ==
    \/ RunCall
    \/ RunCalibration
    \/ RunCalibrationFails
    \/ Progress
    \/ GetCalibrations
    \/ RunReturn

SpecRun == Init /\ [][NextRun]_vars

\* ---- vocabulary of the run_characterizations claims
Called == run_status # "idle"

\* No call of the hardware engine or of the simulator, and none of the
\* progress callback.
NothingCalled == backend_calls = <<>> /\ simulator_calls = 0 /\ progress_calls = <<>>

MixedGateSets ==
    \E i \in 1 .. Len(calibrations) : \E j \in 1 .. Len(calibrations) :
        calibrations[i].gate_set # calibrations[j].gate_set

\* ceil(n / m)
CeilDiv(n, m) == (n + m - 1) \div m

\* The layers of the requests at 0-based positions lo .. hi.
LayersOf(lo, hi) ==
    [j \in 1 .. (hi - lo + 1) |-> to_calibration_layer(calibrations[lo + j])]

\* The raw result the backend returns for the request at 1-based position i.
RawResultFor(i) == calibration_result(to_calibration_layer(calibrations[i]))

\* C15: with max_layers_per_request < 1 the call raises ValueError, whatever
\* the request list (the empty one too) and the engine, and neither the
\* backend nor the progress callback has been called.
C15_BatchSizeRejected ==
    (Called /\ max_layers_per_request < 1)
    => run_status = "ValueError" /\ NothingCalled

\* The empty list with batch size 0 and an engine that is no engine.
C15_Witness ==
    /\ run_status = "ValueError"
    /\ max_layers_per_request < 1
    /\ calibrations = <<>>
    /\ engine = "None"

\* C16: the empty request list with max_layers_per_request >= 1 returns []
\* with no call of the backend or of the progress callback, for every engine
\* argument and every processor id.
C16_EmptyListReturnsEmpty ==
    (Called /\ calibrations = <<>> /\ max_layers_per_request >= 1)
    => run_status = "returned" /\ results = <<>> /\ NothingCalled

\* [] returned for an engine that is neither Engine nor simulator, without a
\* processor id and with a progress callback.
C16_Witness ==
    /\ run_status = "returned"
    /\ calibrations = <<>>
    /\ engine = "None"
    /\ processor_id = "None"
    /\ progress_func

\* C17: a hardware-engine run of n >= 1 requests of one gate-set with a
\* processor id and batch size m >= 1 ends by returning; by then ceil(n/m)
\* backend calls were made, call k (from 0) with the layers of requests
\* k*m .. min((k+1)*m, n)-1 in order, and result i is request i's parse of
\* the raw result for request i, for every i.
C17_BatchesAndResults ==
    LET n == Len(calibrations)
        m == max_layers_per_request
    IN ( /\ run_status \in {"returned", "ValueError", "NameError", "TypeError"}
         /\ engine = "Engine"
         /\ processor_id # "None"
         /\ n >= 1
         /\ m >= 1
         /\ ~MixedGateSets )
       => /\ run_status = "returned"
          /\ Len(backend_calls) = CeilDiv(n, m)
          /\ \A k \in 0 .. (Len(backend_calls) - 1) :
                backend_calls[k + 1] = LayersOf(k * m, Min((k + 1) * m, n) - 1)
          /\ Len(results) = n
          /\ \A i \in 1 .. n : results[i] = parse_result(calibrations[i], RawResultFor(i))

C19_RejectedBeforeBackend ==
    ( /\ Called
      /\ Len(calibrations) >= 1
      /\ MixedGateSets \/ (engine = "Engine" /\ processor_id = "None") )
    => run_status = "ValueError" /\ NothingCalled

\* Requests of two gate-sets handed to the hardware engine with a processor
\* id, a batch size of 1 and a progress callback.
C19_Witness ==
    /\ run_status = "ValueError"
    /\ MixedGateSets
    /\ engine = "Engine"
    /\ processor_id # "None"
    /\ max_layers_per_request = 1
    /\ progress_func

\* --------------------------------------------------- PhasedFSimParameters
\* The values an angle takes: None, or one of two floats.
AngleValues == {None, 0, 2}

Parameters ==
    [theta : AngleValues, zeta : AngleValues, chi : AngleValues,
     gamma : AngleValues, phi : AngleValues]

merge_with_other_first(this, that) ==
    [theta |-> IF that.theta = None THEN this.theta ELSE that.theta,
     zeta |-> IF that.zeta = None THEN this.zeta ELSE that.zeta,
     chi |-> IF that.chi = None THEN this.chi ELSE that.chi,
     gamma |-> IF that.gamma = None THEN this.gamma ELSE that.gamma,
     phi |-> IF that.phi = None THEN this.phi ELSE that.phi]

\* this.merge_with(that)
merge_with(this, that) ==
    [theta |-> IF this.theta = None THEN that.theta ELSE this.theta,
     zeta |-> IF this.zeta = None THEN that.zeta ELSE this.zeta,
     chi |-> IF this.chi = None THEN that.chi ELSE this.chi,
     gamma |-> IF this.gamma = None THEN that.gamma ELSE this.gamma,
     phi |-> IF this.phi = None THEN that.phi ELSE this.phi]

\* this.override_by(that)
override_by(this, that) == merge_with(that, this)

\* Two parameter records.
InitParameters ==
    /\ CircuitIdle
    /\ gates_translator = "sqrt_iswap"
    /\ options = "WITHOUT_CHI"
    /\ gate_set = "SQRT_ISWAP_GATESET"
    /\ calibrations = <<>>
    /\ MomentIdle
    /\ RunIdle
    /\ self \in Parameters
    /\ other \in Parameters
    /\ merged = [done |-> FALSE, value |-> NoParameters]
    /\ swaps = <<>>
    /\ ResultIdle
    /\ CorrectedIdle
    /\ CompensatedIdle
    /\ ParseIdle

\* self.merge_with(other).override_by(self)
MergeThenOverride ==
    /\ ~merged.done
    /\ merged' = [done |-> TRUE, value |-> override_by(merge_with(self, other), self)]
    /\ UNCHANGED <<self, other, swaps, stored, query, found>>
    /\ UNCHANGED <<circuit_vars, gates_translator, options, gate_set, calibrations,
                   moment_vars, run_vars, corrected_vars, compensated_vars, parse_vars>>

NextParameters == MergeThenOverride

SpecParameters == InitParameters /\ [][NextParameters]_vars

\* ---- vocabulary of the parameter claims
Angles == {"theta", "zeta", "chi", "gamma", "phi"}

\* The angles unset in self and set in other.
FilledFromOther == {a \in Angles : self[a] = None /\ other[a] # None}

\* C20: self.merge_with(other).override_by(self) differs from self in exactly
\* the angles that are unset in self and set in other; with no such angle it
\* equals self.
C20_MergeThenOverride ==
    merged.done =>
      /\ {a \in Angles : merged.value[a] # self[a]} = FilledFromOther
      /\ FilledFromOther = {} => merged.value = self

\* One angle is filled from other while another, set to different values in
\* the two records, keeps the value of self.
C20_Witness ==
    /\ merged.done
    /\ FilledFromOther # {}
    /\ merged.value # self
    /\ \E a \in Angles : self[a] # None /\ other[a] # None /\ self[a] # other[a]

\* ------------------------------------------ parameters_for_qubits_swapped
\* Angles of either sign, so that a negated angle is an angle again.
SignedAngleValues == {None, -2, 0, 2}

SignedParameters ==
    [theta : SignedAngleValues, zeta : SignedAngleValues, chi : SignedAngleValues,
     gamma : SignedAngleValues, phi : SignedAngleValues]

parameters_for_qubits_swapped_zero_for_none(this) ==
    [theta |-> this.theta,
     zeta |-> IF this.zeta # None THEN -this.zeta ELSE 0,
     chi |-> IF this.chi # None THEN -this.chi ELSE 0,
     gamma |-> this.gamma,
     phi |-> this.phi]

\* this.parameters_for_qubits_swapped()
parameters_for_qubits_swapped(this) ==
    [theta |-> this.theta,
     zeta |-> IF this.zeta # None THEN -this.zeta ELSE None,
     chi |-> IF this.chi # None THEN -this.chi ELSE None,
     gamma |-> this.gamma,
     phi |-> this.phi]

\* One parameter record.
InitSwapped ==
    /\ CircuitIdle
    /\ gates_translator = "sqrt_iswap"
    /\ options = "WITHOUT_CHI"
    /\ gate_set = "SQRT_ISWAP_GATESET"
    /\ calibrations = <<>>
    /\ MomentIdle
    /\ RunIdle
    /\ self \in SignedParameters
    /\ other = NoParameters
    /\ merged = [done |-> FALSE, value |-> NoParameters]
    /\ swaps = <<>>
    /\ ResultIdle
    /\ CorrectedIdle
    /\ CompensatedIdle
    /\ ParseIdle

\* parameters_for_qubits_swapped() of self, then of what that returned.
Swap ==
    /\ Len(swaps) < 2
    /\ swaps' = Append(swaps, parameters_for_qubits_swapped(
                                  IF swaps = <<>> THEN self ELSE swaps[Len(swaps)]))
    /\ UNCHANGED <<self, other, merged, stored, query, found>>
    /\ UNCHANGED <<circuit_vars, gates_translator, options, gate_set, calibrations,
                   moment_vars, run_vars, corrected_vars, compensated_vars, parse_vars>>

NextSwapped == Swap

SpecSwapped == InitSwapped /\ [][NextSwapped]_vars

\* C21: one swap negates zeta and chi where they are set, keeps theta, gamma
\* and phi, and leaves every unset angle unset; two swaps give the record
\* back, whichever angles are unset.
C21_SwapIsInvolution ==
    /\ Len(swaps) >= 1
       => /\ \A a \in {"theta", "gamma", "phi"} : swaps[1][a] = self[a]
          /\ \A a \in {"zeta", "chi"} :
                /\ self[a] = None => swaps[1][a] = None
                /\ self[a] # None => swaps[1][a] # None /\ swaps[1][a] + self[a] = 0
    /\ Len(swaps) = 2 => swaps[2] = self

\* Swapped twice: a record with zeta unset and chi set to a non-zero angle.
C21_Witness ==
    /\ Len(swaps) = 2
    /\ self.zeta = None
    /\ self.chi # None
    /\ self.chi # 0
    /\ swaps[1] # self

\* ------------------------------ PhasedFSimCalibrationResult.get_parameters
\* The records stored in generated results: theta, gamma and phi all unset
\* or all 2; zeta and chi unset or of either sign.
StoredRecords ==
    {p \in SignedParameters : p.theta \in {None, 2} /\ p.gamma = p.theta /\ p.phi = p.theta}

\* The keys of generated results: one pair of qubits in its two orientations.
StoredKeys == {<<0, 1>>, <<1, 0>>}

\* The dicts `parameters` of generated results.
StoredDicts == UNION {[K -> StoredRecords] : K \in SUBSET StoredKeys}

\* The qubits asked for: one stored in either orientation, one never stored.
Queries == {<<0, 1>>, <<1, 0>>, <<1, 2>>}

get_parameters_unswapped(parameters, a, b) ==
    IF <<a, b>> \in DOMAIN parameters
    THEN [some |-> TRUE, value |-> parameters[<<a, b>>]]
    ELSE IF <<b, a>> \in DOMAIN parameters
    THEN [some |-> TRUE, value |-> parameters[<<b, a>>]]
    ELSE Nothing

\* PhasedFSimCalibrationResult.get_parameters(a, b)
get_parameters(parameters, a, b) ==
    IF <<a, b>> \in DOMAIN parameters
    THEN [some |-> TRUE, value |-> parameters[<<a, b>>]]
    ELSE IF <<b, a>> \in DOMAIN parameters
    THEN [some |-> TRUE, value |-> parameters_for_qubits_swapped(parameters[<<b, a>>])]
    ELSE Nothing

\* A result and the qubits to ask it for.
InitResult ==
    /\ CircuitIdle
    /\ gates_translator = "sqrt_iswap"
    /\ options = "WITHOUT_CHI"
    /\ gate_set = "SQRT_ISWAP_GATESET"
    /\ calibrations = <<>>
    /\ MomentIdle
    /\ RunIdle
    /\ self = NoParameters
    /\ other = NoParameters
    /\ merged = [done |-> FALSE, value |-> NoParameters]
    /\ swaps = <<>>
    /\ stored \in StoredDicts
    /\ query \in Queries
    /\ found = NotFound
    /\ CorrectedIdle
    /\ CompensatedIdle
    /\ ParseIdle

\* get_parameters(a, b) and get_parameters(b, a) of the result.
GetParameters ==
    /\ ~found.done
    /\ found' = [done |-> TRUE,
                 ab |-> get_parameters(stored, query[1], query[2]),
                 ba |-> get_parameters(stored, query[2], query[1])]
    /\ UNCHANGED <<self, other, merged, swaps, stored, query>>
    /\ UNCHANGED <<circuit_vars, gates_translator, options, gate_set, calibrations,
                   moment_vars, run_vars, corrected_vars, compensated_vars, parse_vars>>

NextResult == GetParameters

SpecResult == InitResult /\ [][NextResult]_vars

\* ---- vocabulary of the get_parameters claim
AB == query

BA == <<query[2], query[1]>>

\* The record with zeta and chi negated where set.
Negated(p) ==
    [p EXCEPT !.zeta = IF @ = None THEN None ELSE 0 - @,
              !.chi = IF @ = None THEN None ELSE 0 - @]

\* C22: get_parameters(a, b) is the record stored under (a, b) when there is
\* one; else the record stored under (b, a) with zeta and chi negated when
\* there is one; else nothing. When one orientation only is stored, the
\* answers for (a, b) and for (b, a) are each other with qubits swapped.
C22_GetParameters ==
    found.done =>
      /\ AB \in DOMAIN stored
         => found.ab = [some |-> TRUE, value |-> stored[AB]]
      /\ (AB \notin DOMAIN stored /\ BA \in DOMAIN stored)
         => found.ab = [some |-> TRUE, value |-> Negated(stored[BA])]
      /\ (AB \notin DOMAIN stored /\ BA \notin DOMAIN stored)
         => found.ab = Nothing
      /\ ((AB \in DOMAIN stored) # (BA \in DOMAIN stored))
         => /\ found.ab.some
            /\ found.ba.some
            /\ found.ab.value = Negated(found.ba.value)

\* Only (b, a) is stored, with zeta set to a non-zero angle and chi unset.
C22_Witness ==
    /\ found.done
    /\ AB \notin DOMAIN stored
    /\ BA \in DOMAIN stored
    /\ stored[BA].zeta \notin {None, 0}
    /\ stored[BA].chi = None
    /\ found.ab.value # stored[BA]

\* ------------------------------------------------ create_corrected_fsim_gate
\* The angles of generated characterizations: unset, or a multiple of 4, so
\* that 0.5 * x and 0.5 * (x + y) are computed without rounding.
CorrectionAngles == {None, -4, 0, 4}

\* The records handed to create_corrected_fsim_gate: theta and phi are not
\* read by it.
CorrectionParameters ==
    {p \in [theta : {2}, zeta : CorrectionAngles, chi : CorrectionAngles,
            gamma : CorrectionAngles, phi : {2}] : TRUE}

CorrectionQubits == {<<0, 1>>, <<3, 2>>}

CorrectionIndices == {None, 0, 5}

\* 0.5 * x
half(x) == x \div 2

\* cirq.rz(rads).on(q)
rz(rads, q) == [gate |-> "rz", rads |-> rads, qubits |-> <<q>>]

correction_alpha_minus(zeta, chi) == half(zeta - chi)

\* alpha = 0.5 * (zeta + chi)
correction_alpha(zeta, chi) == half(zeta + chi)

\* beta = 0.5 * (zeta - chi)
correction_beta(zeta, chi) == half(zeta - chi)

\* create_corrected_fsim_gate(qubits, gate, parameters, characterization_index):
\* an unset angle makes the arithmetic on None raise TypeError.
create_corrected_fsim_gate(pair, gate, parameters, index) ==
    LET zeta == parameters.zeta
        gamma == parameters.gamma
        chi == parameters.chi
        a == pair[1]
        b == pair[2]
        alpha == correction_alpha(zeta, chi)
        beta == correction_beta(zeta, chi)
    IN IF zeta = None \/ chi = None \/ gamma = None
       THEN [done |-> TRUE, raised |-> "TypeError", layers |-> <<>>, tags |-> <<>>]
       ELSE [done |-> TRUE, raised |-> "",
             layers |-> << <<rz(half(gamma) - alpha, a), rz(half(gamma) + alpha, b)>>,
                           <<Op(gate, <<a, b>>)>>,
                           <<rz(half(gamma) - beta, a), rz(half(gamma) + beta, b)>> >>,
             tags |-> <<None, index, None>>]

\* The arguments of one call of create_corrected_fsim_gate.
InitCorrected ==
    /\ CircuitIdle
    /\ gates_translator = "sqrt_iswap"
    /\ options = "WITHOUT_CHI"
    /\ gate_set = "SQRT_ISWAP_GATESET"
    /\ calibrations = <<>>
    /\ MomentIdle
    /\ RunIdle
    /\ ParametersIdle
    /\ qubits \in CorrectionQubits
    /\ translated_gate \in {"FSimPi4", "FSimPi8"}
    /\ pair_parameters \in CorrectionParameters
    /\ characterization_index \in CorrectionIndices
    /\ corrected = NotCorrected
    /\ CompensatedIdle
    /\ ParseIdle

CreateCorrected ==
    /\ ~corrected.done
    /\ corrected' = create_corrected_fsim_gate(qubits, translated_gate, pair_parameters,
                                               characterization_index)
    /\ UNCHANGED <<qubits, translated_gate, pair_parameters, characterization_index>>
    /\ UNCHANGED <<circuit_vars, gates_translator, options, gate_set, calibrations,
                   moment_vars, run_vars, parameters_vars, compensated_vars, parse_vars>>

NextCorrected == CreateCorrected

SpecCorrected == InitCorrected /\ [][NextCorrected]_vars

\* ---- vocabulary of the create_corrected_fsim_gate claim
AnglesSet == \A a \in {"zeta", "chi", "gamma"} : pair_parameters[a] # None

\* A layer of two Z-rotations, the first on a and the second on b.
IsRotationLayer(layer) ==
    /\ Len(layer) = 2
    /\ \A i \in 1 .. 2 : layer[i].gate = "rz" /\ layer[i].qubits = <<qubits[i]>>

\* C23: with zeta, chi and gamma set the call returns three layers, rotations
\* on a and b, the given gate on (a, b), rotations on a and b, tagged
\* [None, characterization_index, None]; the angles before the gate are
\* gamma/2 -+ (zeta+chi)/2 and those after it gamma/2 -+ (zeta-chi)/2 (stated
\* doubled), so both layers sum to gamma and differ by zeta+chi and zeta-chi.
C23_ThreeLayers ==
    (corrected.done /\ AnglesSet) =>
      LET pre == corrected.layers[1]
          post == corrected.layers[3]
          zeta == pair_parameters.zeta
          chi == pair_parameters.chi
          gamma == pair_parameters.gamma
      IN /\ corrected.raised = ""
         /\ Len(corrected.layers) = 3
         /\ corrected.tags = <<None, characterization_index, None>>
         /\ IsRotationLayer(pre)
         /\ corrected.layers[2] = <<[gate |-> translated_gate, qubits |-> qubits]>>
         /\ IsRotationLayer(post)
         /\ 2 * pre[1].rads = gamma - (zeta + chi)
         /\ 2 * pre[2].rads = gamma + (zeta + chi)
         /\ 2 * post[1].rads = gamma - (zeta - chi)
         /\ 2 * post[2].rads = gamma + (zeta - chi)
         /\ pre[1].rads + pre[2].rads = gamma
         /\ post[1].rads + post[2].rads = gamma
         /\ pre[2].rads - pre[1].rads = zeta + chi
         /\ post[2].rads - post[1].rads = zeta - chi

\* A call with three different non-zero corrections on (3, 2), tagged 5.
C23_Witness ==
    /\ corrected.done
    /\ AnglesSet
    /\ qubits = <<3, 2>>
    /\ characterization_index = 5
    /\ pair_parameters.zeta = 4
    /\ pair_parameters.chi = -4
    /\ pair_parameters.gamma = 4
    /\ corrected.layers[1][1].rads # corrected.layers[3][1].rads

\* ------------------------------------------- phased_calibration_for_circuit
MaxCompensated == 3   \* moments of the circuit handed to phased_calibration_for_circuit

\* The moments of generated circuits: single-qubit gates, a measurement, two
\* pairs, one pair listed (high, low), a pair next to a single-qubit gate, a
\* gate the translator rejects, an operation that is no GateOperation, and
\* the empty moment.
CompensatedMoments ==
    { <<Op("X", <<0>>), Op("Y", <<2>>)>>,
      <<Op("Measure", <<0, 1>>)>>,
      <<Op("FSimPi4", <<0, 1>>), Op("FSimPi4", <<2, 3>>)>>,
      <<Op("FSimPi4", <<2, 1>>)>>,
      <<Op("FSimPi4", <<0, 1>>), Op("Z", <<2>>)>>,
      <<Op("FSimPi8", <<1, 2>>)>>,
      <<Op("GlobalPhase", <<>>)>>,
      <<>> }

CompensatedCircuits ==
    UNION {[1 .. n -> CompensatedMoments] : n \in 0 .. MaxCompensated}

\* moments_mapping: one entry per moment, None or the index of a result.
CompensatedMappings(n) == [1 .. n -> {None, 0, 1}]

Angle3(z, c, g) == [theta |-> 2, zeta |-> z, chi |-> c, gamma |-> g, phi |-> 2]

\* The lists of results: one where every pair of the circuits has a record
\* with every angle set; one where (0, 1) is stored as (1, 0) with chi
\* unset, (2, 3) is not stored and the record of (1, 2) has no angle set.
CharacterizationLists ==
    { << (<<0, 1>> :> Angle3(4, -4, 8)) @@ (<<2, 3>> :> Angle3(-4, 0, 4)),
         (<<1, 2>> :> Angle3(8, 4, -4)) >>,
      << (<<1, 0>> :> Angle3(4, None, 8)),
         (<<1, 2>> :> NoParameters) >> }

\* default_phases
default_phases == [theta |-> None, zeta |-> 0, chi |-> 0, gamma |-> 0, phi |-> None]

\* new_moment_mapping = None
NoMapping == <<>>

RECURSIVE Flatten(_)
\* Moment(operations) of a tuple of tuples of operations
Flatten(tuples) ==
    IF tuples = <<>> THEN <<>> ELSE Head(tuples) \o Flatten(Tail(tuples))

zip_longest_first_only(decompositions) ==
    [j \in 1 .. Len(decompositions[1]) |-> decompositions[1][j]]

\* Moment(operations) for operations in zip_longest(*decompositions,
\* fillvalue=()): layer j of every decomposition, in the order of the
\* operations (every decomposition has the same number of layers).
zip_longest(decompositions) ==
    [j \in 1 .. Len(decompositions[1]) |->
        Flatten([d \in 1 .. Len(decompositions) |-> decompositions[d][j]])]

\* The locals of the loop over the operations of one moment.
CompensateInit ==
    [raised |-> "", other |-> <<>>, decompositions |-> <<>>,
     new_moment_mapping |-> NoMapping]

\* The body of `for op in moment`.
compensate_op(st, op, index, tr, chars) ==
    IF st.raised # "" THEN st
    ELSE IF ~IsGateOperation(op)
    THEN [st EXCEPT !.raised = "IncompatibleMomentError"]
    ELSE IF IsMeasurementGate(op.gate) \/ IsSingleQubitGate(op.gate)
    THEN [st EXCEPT !.other = Append(@, op)]
    ELSE IF index = None
    THEN [st EXCEPT !.raised = "ValueError: Missing characterization data"]
    ELSE IF gates_translator_apply(tr, op.gate) = NoGate
    THEN [st EXCEPT !.raised = "IncompatibleMomentError"]
    ELSE LET a == op.qubits[1]
             b == op.qubits[2]
             stored_parameters == get_parameters(chars[index + 1], a, b)
         IN IF ~stored_parameters.some
            THEN [st EXCEPT !.raised = "AttributeError"]
            ELSE LET decomposed ==
                         create_corrected_fsim_gate(
                             <<a, b>>, gates_translator_apply(tr, op.gate),
                             merge_with(stored_parameters.value, default_phases), index)
                 IN IF decomposed.raised # ""
                    THEN [st EXCEPT !.raised = decomposed.raised]
                    ELSE IF st.new_moment_mapping = NoMapping
                    THEN [st EXCEPT !.decompositions = Append(@, decomposed.layers),
                                    !.new_moment_mapping = decomposed.tags]
                    ELSE IF st.new_moment_mapping # decomposed.tags
                    THEN [st EXCEPT !.raised = "ValueError: Inconsistent decompositions"]
                    ELSE [st EXCEPT !.decompositions = Append(@, decomposed.layers)]

RECURSIVE compensate_ops(_, _, _, _, _, _)
\* `for op in moment`, from operation i on.
compensate_ops(st, ops, i, index, tr, chars) ==
    IF i > Len(ops) THEN st
    ELSE compensate_ops(compensate_op(st, ops[i], index, tr, chars), ops, i + 1,
                        index, tr, chars)

\* The body of `for index, moment in enumerate(circuit)`.
compensate_moment(acc, ops, index, tr, chars) ==
    LET st == compensate_ops(CompensateInit, ops, 1, index, tr, chars)
    IN IF acc.raised # "" THEN acc
       ELSE IF st.raised # ""
       THEN [acc EXCEPT !.raised = st.raised]
       ELSE IF st.other # <<>> /\ st.decompositions # <<>>
       THEN [acc EXCEPT !.raised = "IncompatibleMomentError"]
       ELSE IF st.other # <<>>
       THEN [acc EXCEPT !.circuit = Append(@, st.other),
                        !.new_mapping = Append(@, index)]
       ELSE IF st.decompositions # <<>>
       THEN [acc EXCEPT !.circuit = @ \o zip_longest(st.decompositions),
                        !.new_mapping = @ \o st.new_moment_mapping]
       ELSE acc

RECURSIVE compensate_moments(_, _, _, _, _, _)
compensate_moments(acc, moments, i, mapping, tr, chars) ==
    IF i > Len(moments) THEN acc
    ELSE compensate_moments(compensate_moment(acc, moments[i], mapping[i], tr, chars),
                            moments, i + 1, mapping, tr, chars)

phased_calibration_for_circuit_partial(moments, chars, mapping, tr) ==
    compensate_moments(
        [done |-> TRUE, raised |-> "", circuit |-> <<>>, new_mapping |-> <<>>],
        moments, 1, mapping, tr, chars)

\* phased_calibration_for_circuit(circuit, characterizations, moments_mapping,
\* gates_translator): a call that raises returns nothing.
phased_calibration_for_circuit(moments, chars, mapping, tr) ==
    LET acc == compensate_moments(
                   [done |-> TRUE, raised |-> "", circuit |-> <<>>, new_mapping |-> <<>>],
                   moments, 1, mapping, tr, chars)
    IN IF acc.raised # ""
       THEN [done |-> TRUE, raised |-> acc.raised, circuit |-> <<>>, new_mapping |-> <<>>]
       ELSE acc

\* The arguments of one call of phased_calibration_for_circuit.
InitCompensated ==
    /\ status = "idle"
    /\ calls = 0
    /\ merge_sub_sets = TRUE
    /\ initial = [given |-> FALSE, requests |-> <<>>, map |-> <<>>]
    /\ circuit \in CompensatedCircuits
    /\ moments_map = <<>>
    /\ pairs_map = <<>>
    /\ before = [calibrations |-> <<>>, moments_map |-> <<>>, pairs_map |-> <<>>]
    /\ gates_translator = "sqrt_iswap"
    /\ options = "WITHOUT_CHI"
    /\ gate_set = "SQRT_ISWAP_GATESET"
    /\ calibrations = <<>>
    /\ MomentIdle
    /\ RunIdle
    /\ ParametersIdle
    /\ CorrectedIdle
    /\ ParseIdle
    /\ characterizations \in CharacterizationLists
    /\ moments_mapping \in CompensatedMappings(Len(circuit))
    /\ compensated = NotCompensated

Compensate ==
    /\ ~compensated.done
    /\ compensated' = phased_calibration_for_circuit(circuit, characterizations,
                                                     moments_mapping, gates_translator)
    /\ UNCHANGED <<characterizations, moments_mapping>>
    /\ UNCHANGED <<circuit_vars, gates_translator, options, gate_set, calibrations,
                   moment_vars, run_vars, parameters_vars, corrected_vars,
                   parse_vars>>

NextCompensated == Compensate

SpecCompensated == InitCompensated /\ [][NextCompensated]_vars

\* ---- vocabulary of the phased_calibration_for_circuit claims
Returned == compensated.done /\ compensated.raised = ""

\* A moment that has only two-qubit gates.
OnlyTwoQubitGates(ops) ==
    /\ ops # <<>>
    /\ \A i \in 1 .. Len(ops) : ops[i].gate \in {"FSimPi4", "FSimPi8"}

\* A moment that has only measurements and single-qubit gates.
OnlyOtherOps(ops) ==
    /\ ops # <<>>
    /\ \A i \in 1 .. Len(ops) : IsMeasurementOp(ops[i]) \/ IsSingleQubitOp(ops[i])

\* The moments the claim has emitted for one moment of the circuit.
Emitted(ops) == IF OnlyTwoQubitGates(ops) THEN 3 ELSE IF OnlyOtherOps(ops) THEN 1 ELSE 0

RECURSIVE EmittedBefore(_)
\* The moments emitted for the moments before moment i.
EmittedBefore(i) == IF i <= 1 THEN 0 ELSE EmittedBefore(i - 1) + Emitted(circuit[i - 1])

\* A moment of Z-rotations on the qubits of the operations, pair by pair.
RotationsOf(layer, ops) ==
    /\ Len(layer) = 2 * Len(ops)
    /\ \A j \in 1 .. Len(ops) : \A q \in 1 .. 2 :
          /\ layer[2 * (j - 1) + q].gate = "rz"
          /\ layer[2 * (j - 1) + q].qubits = <<ops[j].qubits[q]>>

\* C25: a call that returns has emitted, in the order of the circuit, the
\* rotations before, the two-qubit gates and the rotations after for every
\* moment of two-qubit gates and the moment itself for every moment of
\* measurements and single-qubit gates; the mapping has one entry per
\* emitted moment, [None, k, None] for a moment mapped to k and the
\* moment's own entry for a moment passed through.
C25_SplicedLayers ==
    Returned =>
      /\ Len(compensated.circuit) = EmittedBefore(Len(circuit) + 1)
      /\ Len(compensated.new_mapping) = Len(compensated.circuit)
      /\ \A i \in 1 .. Len(circuit) :
            LET s == EmittedBefore(i)
                k == moments_mapping[i]
            IN /\ OnlyOtherOps(circuit[i])
                  => /\ compensated.circuit[s + 1] = circuit[i]
                     /\ compensated.new_mapping[s + 1] = k
               /\ OnlyTwoQubitGates(circuit[i])
                  => /\ k # None
                     /\ RotationsOf(compensated.circuit[s + 1], circuit[i])
                     /\ compensated.circuit[s + 2] = circuit[i]
                     /\ RotationsOf(compensated.circuit[s + 3], circuit[i])
                     /\ compensated.new_mapping[s + 1] = None
                     /\ compensated.new_mapping[s + 2] = k
                     /\ compensated.new_mapping[s + 3] = None
      /\ (/\ moments_mapping = <<None, 0, 1>>
          /\ OnlyOtherOps(circuit[1])
          /\ OnlyTwoQubitGates(circuit[2])
          /\ OnlyTwoQubitGates(circuit[3]))
         => compensated.new_mapping = <<None, None, 0, None, None, 1, None>>

\* The circuit of the tests: single-qubit gates, two pairs mapped to result
\* 0, one pair mapped to result 1; seven moments were returned.
C25_Witness ==
    /\ Returned
    /\ moments_mapping = <<None, 0, 1>>
    /\ circuit = << <<Op("X", <<0>>), Op("Y", <<2>>)>>,
                    <<Op("FSimPi4", <<0, 1>>), Op("FSimPi4", <<2, 3>>)>>,
                    <<Op("FSimPi4", <<2, 1>>)>> >>
    /\ Len(compensated.circuit) = 7
    /\ compensated.new_mapping = <<None, None, 0, None, None, 1, None>>

\* ------------------------------ floquet_characterization_for_circuit, again
\* The map entry of moment i of the circuit of the running call.
MapEntry(i) == moments_map[Len(initial.map) + i]

\* Request i of the list as it was before the last iteration is still there,
\* at its index, with at least the pairs it had.
KeptInPlace(i) ==
    /\ i <= Len(calibrations)
    /\ PairsOf(before.calibrations[i]) \subseteq PairsOf(calibrations[i])

\* C26: during a call and at its return every moment mapped to an index k
\* has all its canonical pairs in the request at index k, whatever later
\* moments did to that request; an iteration leaves every request of the
\* list at its index with at least the pairs it had.
C26_MappedMomentsCovered ==
    /\ status \in {"running", "returned"}
       => \A i \in 1 .. Len(circuit) :
             MapEntry(i) # None
             => /\ MapEntry(i) < Len(calibrations)
                /\ CanonicalPairs(circuit[i]) \subseteq PairsOf(calibrations[MapEntry(i) + 1])
    /\ \A i \in 1 .. Len(before.calibrations) : KeptInPlace(i)

\* A returned call in which the request of the first moment was replaced by
\* a superset for the second and widened by a union for the third.
C26_Witness ==
    /\ status = "returned"
    /\ merge_sub_sets
    /\ Len(circuit) >= 3
    /\ MapEntry(1) # None
    /\ MapEntry(2) = MapEntry(1)
    /\ MapEntry(3) = MapEntry(1)
    /\ CanonicalPairs(circuit[1]) \subseteq CanonicalPairs(circuit[2])
    /\ CanonicalPairs(circuit[1]) # CanonicalPairs(circuit[2])
    /\ ~(CanonicalPairs(circuit[3]) \subseteq CanonicalPairs(circuit[2]))
    /\ ~(CanonicalPairs(circuit[2]) \subseteq CanonicalPairs(circuit[3]))

\* The indices pairs_map.values() gave the last iteration: the merge pool.
Pool == {before.pairs_map[k].index : k \in 1 .. Len(before.pairs_map)}

\* The requests of the pool the last layer is a subset of, a superset of, or
\* compatible with.
Fits ==
    {i \in Pool :
        LET P == PairsOf(before.calibrations[i + 1])
        IN \/ LastLayer \subseteq P
           \/ P \subseteq LastLayer
           \/ ~Conflicting(LastLayer, P)}

\* C27: with merging enabled a layer is folded into the lowest-index request
\* of the pool that it is a subset of, a superset of or compatible with, the
\* list keeping its length; when it conflicts with every request of the pool
\* it is appended with the previous length of the list as its index. The
\* pool lists the requests in the order they were created, and no iteration
\* removes a request or moves it to another index.
C27_FirstFit ==
    /\ (Completed /\ merge_sub_sets /\ HasTwoQubitOp(LastMoment))
       => IF Fits # {}
          THEN /\ \A i \in Fits : LastIndex <= i
               /\ LastIndex \in Fits
               /\ Len(calibrations) = Len(before.calibrations)
          ELSE /\ LastIndex = Len(before.calibrations)
               /\ Len(calibrations) = Len(before.calibrations) + 1
               /\ PairsOf(calibrations[Len(calibrations)]) = LastLayer
    /\ merge_sub_sets
       => /\ \A k \in 1 .. Len(pairs_map) : \A l \in 1 .. Len(pairs_map) :
                k < l => pairs_map[k].index < pairs_map[l].index
          /\ \A i \in 1 .. Len(before.calibrations) :
                PairsOf(before.calibrations[i]) \subseteq PairsOf(calibrations[i])

\* Two requests of the pool fit the layer, the first created took it, and
\* the pool has a request created before both that the layer conflicts with.
C27_Witness ==
    /\ Completed
    /\ merge_sub_sets
    /\ HasTwoQubitOp(LastMoment)
    /\ Cardinality(Fits) >= 2
    /\ Cardinality(Pool) >= 3
    /\ \E i \in Pool : i < LastIndex
    /\ \A i \in Fits : LastIndex <= i

\* C28: whenever a candidate request is compared with a request of the merge
\* pool the two have the same gate, gate-set and options, so no iteration
\* ends in the AssertionError of merge_into_calibrations, whichever
\* translator the call was given.
C28_AssertionsHold == status # "asserted"

caller_lists == [requests |-> calibrations, map |-> moments_map]

\* C30: a call given `initial` leaves the request list and the map the
\* caller passed as they were, while it runs and after it has returned or
\* raised.
C30_InitialNotModified ==
    initial.given
    => /\ caller_lists.requests = initial.requests
       /\ caller_lists.map = initial.map

\* ------------------------------------- the pairs of the requests, both ways
\* floquet_characterization_for_moment called on its own, or
\* floquet_characterization_for_circuit called and chained: a caller does the
\* one or the other.
InitPairs == InitMoment

NextPairs ==
    \/ CircuitIdle /\ NextMoment
    \/ MomentIdle /\ Next

SpecPairs == InitPairs /\ [][NextPairs]_vars

\* ---- vocabulary of the pairs claim
AscendingQubits(ps) == \A k \in 1 .. Len(ps) : ps[k][1] < ps[k][2]

\* The pair the claim has recorded for operation i of the moment.
RecordedPair(i) ==
    IF pairs_in_canonical_order THEN LowHigh(moment_arg[i].qubits)
    ELSE moment_arg[i].qubits

\* C31: a request returned by floquet_characterization_for_moment has one
\* pair per two-qubit operation of the moment; with pairs_in_canonical_order
\* each pair is (low, high), otherwise the qubits are in the operation's
\* order; with pairs_sorted the pairs ascend, otherwise they are in the
\* order of the operations. Every request of the list of
\* floquet_characterization_for_circuit has ascending pairs of ascending
\* qubits.
C31_PairsOfRequests ==
    /\ (classified.done /\ ~classified.raised /\ ~classified.isNone)
       => LET ps == classified.request.pairs
              two == {i \in ArgIndices : IsTwoQubitOp(moment_arg[i])}
          IN /\ Len(ps) = Cardinality(two)
             /\ SeqSet(ps) = {RecordedPair(i) : i \in two}
             /\ pairs_in_canonical_order => AscendingQubits(ps)
             /\ pairs_sorted => Ascending(ps)
             /\ ~pairs_sorted
                => /\ two = ArgIndices
                   /\ \A i \in ArgIndices : ps[i] = RecordedPair(i)
    /\ \A i \in 1 .. Len(calibrations) :
          /\ Ascending(calibrations[i].pairs)
          /\ AscendingQubits(calibrations[i].pairs)

\* Two operations listed (d, c) then (a, b), canonical order and sorting
\* both asked for: the request has (a, b) then (c, d).
C31_Witness ==
    /\ classified.done
    /\ ~classified.raised
    /\ ~classified.isNone
    /\ pairs_in_canonical_order
    /\ pairs_sorted
    /\ Len(moment_arg) = 2
    /\ moment_arg[1].qubits = <<3, 2>>
    /\ classified.request.pairs = << <<0, 1>>, <<2, 3>> >>

\* ------------------------------------------ run_characterizations, again
\* The batch at 0-based position k of the list, as the claims have it.
BatchAt(k) ==
    LayersOf(k * max_layers_per_request,
             Min((k + 1) * max_layers_per_request, Len(calibrations)) - 1)

\* The batches were sent in their order, each once; after a backend call
\* that raised the callback has been called for the batches before it only.
SentInOrder ==
    (Called /\ engine = "Engine")
    => /\ Len(backend_calls) <=
             IF max_layers_per_request >= 1
             THEN CeilDiv(Len(calibrations), max_layers_per_request) ELSE 0
       /\ \A k \in 0 .. (Len(backend_calls) - 1) : backend_calls[k + 1] = BatchAt(k)
       /\ \A j \in 1 .. Len(backend_calls) : \A k \in 1 .. Len(backend_calls) :
             j # k => backend_calls[j] # backend_calls[k]
       /\ run_status = "EngineError"
          => /\ Len(backend_calls) >= 1
             /\ Len(progress_calls) =
                   IF progress_func THEN Len(backend_calls) - 1 ELSE 0
             /\ Len(results) = (Len(backend_calls) - 1) * max_layers_per_request

\* Once a backend call has raised nothing more happens in the call.
FailureIsFinal ==
    run_status = "EngineError"
    => /\ run_status' = "EngineError"
       /\ backend_calls' = backend_calls
       /\ progress_calls' = progress_calls
       /\ results' = results

Failed == compensated.done /\ compensated.raised # ""

\* The call raised and handed nothing back.
FailedWithNothing ==
    /\ Failed
    /\ compensated.circuit = <<>>
    /\ compensated.new_mapping = <<>>

IsTwoQubitGateOp(op) == op.gate \in {"FSimPi4", "FSimPi8"}

HasTwoQubitGate(ops) == \E j \in 1 .. Len(ops) : IsTwoQubitGateOp(ops[j])

HasOtherOp(ops) ==
    \E j \in 1 .. Len(ops) : IsMeasurementOp(ops[j]) \/ IsSingleQubitOp(ops[j])

\* The record of every pair of the moment is stored in the result the
\* moment is mapped to.
RecordsStored(i) ==
    /\ moments_mapping[i] # None
    /\ \A j \in 1 .. Len(circuit[i]) :
          IsTwoQubitGateOp(circuit[i][j])
          => \E key \in DOMAIN characterizations[moments_mapping[i] + 1] :
                SeqSet(key) = SeqSet(circuit[i][j].qubits)

\* C33: the call raises, and hands back no circuit, when a moment with a
\* two-qubit gate has the map entry None and when a moment has a two-qubit
\* gate next to a measurement or single-qubit operation: ValueError for the
\* missing characterization and IncompatibleMomentError for the mixed
\* moment when that moment is the first of the circuit. The operations of a
\* moment share its map entry, so their index tags never differ and the
\* ValueError for inconsistent decompositions is not raised.
C33_Failures ==
    compensated.done
    => /\ (\E i \in 1 .. Len(circuit) :
              HasTwoQubitGate(circuit[i]) /\ moments_mapping[i] = None)
          => FailedWithNothing
       /\ (\E i \in 1 .. Len(circuit) :
              HasTwoQubitGate(circuit[i]) /\ HasOtherOp(circuit[i]))
          => FailedWithNothing
       /\ (/\ Len(circuit) >= 1
           /\ OnlyTwoQubitGates(circuit[1])
           /\ moments_mapping[1] = None)
          => compensated.raised = "ValueError: Missing characterization data"
       /\ (/\ Len(circuit) >= 1
           /\ HasTwoQubitGate(circuit[1])
           /\ HasOtherOp(circuit[1])
           /\ RecordsStored(1)
           /\ \A j \in 1 .. Len(circuit[1]) :
                 IsTwoQubitGateOp(circuit[1][j]) => circuit[1][j].gate = "FSimPi4")
          => compensated.raised = "IncompatibleMomentError"
       /\ compensated.raised # "ValueError: Inconsistent decompositions"

\* The first moment was passed through and the second, two pairs with the
\* map entry None, made the call raise.
C33_Witness ==
    /\ FailedWithNothing
    /\ compensated.raised = "ValueError: Missing characterization data"
    /\ Len(circuit) = 3
    /\ OnlyOtherOps(circuit[1])
    /\ OnlyTwoQubitGates(circuit[2])
    /\ Len(circuit[2]) = 2
    /\ moments_mapping[2] = None

\* The angle the claim has used for the pair qs of a moment mapped to result
\* k: the stored one, negated for zeta and chi of a record stored under the
\* swapped pair, and 0 where the result provides none.
ProvidedAngle(k, qs, angle) ==
    LET d == characterizations[k + 1]
        ba == <<qs[2], qs[1]>>
    IN IF qs \in DOMAIN d
       THEN (IF d[qs][angle] = None THEN 0 ELSE d[qs][angle])
       ELSE IF ba \in DOMAIN d
       THEN (IF d[ba][angle] = None THEN 0
             ELSE IF angle \in {"zeta", "chi"} THEN 0 - d[ba][angle]
             ELSE d[ba][angle])
       ELSE 0

\* Nothing but a missing angle can make the call fail: every moment is empty,
\* or measurements and single-qubit gates, or translatable two-qubit gates
\* mapped to a result.
NothingElseFails ==
    \A i \in 1 .. Len(circuit) :
       \/ circuit[i] = <<>>
       \/ OnlyOtherOps(circuit[i])
       \/ /\ \A j \in 1 .. Len(circuit[i]) : circuit[i][j].gate = "FSimPi4"
          /\ moments_mapping[i] # None

\* The rotations emitted around operation j of moment i are those of the
\* provided angles.
RotationsAsProvided(i, j) ==
    LET k == moments_mapping[i]
        qs == circuit[i][j].qubits
        zeta == ProvidedAngle(k, qs, "zeta")
        chi == ProvidedAngle(k, qs, "chi")
        gamma == ProvidedAngle(k, qs, "gamma")
        pre == compensated.circuit[EmittedBefore(i) + 1]
        post == compensated.circuit[EmittedBefore(i) + 3]
    IN /\ 2 * pre[2 * j - 1].rads = gamma - (zeta + chi)
       /\ 2 * pre[2 * j].rads = gamma + (zeta + chi)
       /\ 2 * post[2 * j - 1].rads = gamma - (zeta - chi)
       /\ 2 * post[2 * j].rads = gamma + (zeta - chi)

\* C34: for every two-qubit operation of a moment mapped to a result, each of
\* zeta, chi and gamma that the result does not provide for the pair, the
\* angle being unset in the stored record or no record being stored for the
\* pair in either orientation, is taken as 0, the angles that are set are
\* used as stored (zeta and chi negated for a record stored under the
\* swapped pair), and the call does not fail for lack of an angle.
C34_MissingAnglesAreZero ==
    (compensated.done /\ NothingElseFails)
    => /\ compensated.raised = ""
       /\ \A i \in 1 .. Len(circuit) :
             OnlyTwoQubitGates(circuit[i])
             => \A j \in 1 .. Len(circuit[i]) : RotationsAsProvided(i, j)

\* --------------- FloquetPhasedFSimCalibrationRequest.parse_result, decoding
MaxMetrics == 4  \* entries of result.metrics['angles'] of a parsed result

\* A text is the sequence of its pieces: a digit, "_", "-", or a run of
\* letters. '01_phi_est' is <<"0", "1", "_", "phi", "_", "est">>.
DigitChars == <<"0", "1", "2", "3", "4", "5", "6", "7", "8", "9">>

IsDigit(c) == \E i \in 1 .. Len(DigitChars) : DigitChars[i] = c

\* int(text) of a text of digits
RECURSIVE int(_)
int(text) ==
    IF text = <<>>
    THEN 0
    ELSE 10 * int(SubSeq(text, 1, Len(text) - 1))
         + (CHOOSE i \in 1 .. Len(DigitChars) : DigitChars[i] = text[Len(text)]) - 1

\* The number of digits a text starts with: what a greedy \d+ consumes.
RECURSIVE leading_digits(_)
leading_digits(text) ==
    IF text = <<>> \/ ~IsDigit(text[1])
    THEN 0
    ELSE 1 + leading_digits(Tail(text))

\* re.match(r'(\d+)_(.+)', key): digits, one "_", and at least one more
\* character; index is int(match[1]) and name is match[2].
re_match(key) ==
    LET d == leading_digits(key)
    IN  IF d >= 1 /\ Len(key) >= d + 2 /\ key[d + 1] = "_"
        THEN [matched |-> TRUE, index |-> int(SubSeq(key, 1, d)),
              name |-> SubSeq(key, d + 2, Len(key))]
        ELSE [matched |-> FALSE, index |-> None, name |-> <<>>]

\* GridQubit 'row_col' of the wire format, as (row, col).
qubit_from_proto_id(id) ==
    LET d == leading_digits(id)
    IN  <<int(SubSeq(id, 1, d)), int(SubSeq(id, d + 2, Len(id)))>>

\* decoded[index][name] = value. decoded keeps its groups in the order their
\* index was first seen; the dict of a group is a function from names.
decoded_set(groups, index, name, value) ==
    IF \E i \in 1 .. Len(groups) : groups[i].index = index
    THEN [i \in 1 .. Len(groups) |->
            IF groups[i].index = index
            THEN [index |-> index, data |-> (name :> value) @@ groups[i].data]
            ELSE groups[i]]
    ELSE Append(groups, [index |-> index, data |-> (name :> value)])

\* The first loop: every key is matched before any group is read.
RECURSIVE decode(_)
decode(entries) ==
    IF entries = <<>>
    THEN [raised |-> "", groups |-> <<>>]
    ELSE LET front == decode(SubSeq(entries, 1, Len(entries) - 1))
             entry == entries[Len(entries)]
             match == re_match(entry.key)
         IN  IF front.raised # ""
             THEN front
             ELSE IF ~match.matched
                  THEN [raised |-> "ValueError: Unknown metric name", groups |-> <<>>]
                  ELSE [raised |-> "",
                        groups |-> decoded_set(front.groups, match.index,
                                               match.name, entry.value)]

data_get_none(data, name) == None

\* data.get(name, None)
data_get(data, name) == IF name \in DOMAIN data THEN data[name] ELSE None

qubit_a == <<"qubit", "_", "a">>
qubit_b == <<"qubit", "_", "b">>
est(angle) == <<angle, "_", "est">>

\* The second loop: parsed[(a, b)] = PhasedFSimParameters(...) per group, in
\* the order of decoded; data['qubit_a'] of a group without it is a KeyError.
RECURSIVE parse_groups(_)
parse_groups(groups) ==
    IF groups = <<>>
    THEN [raised |-> "", parameters |-> <<>>]
    ELSE LET front == parse_groups(SubSeq(groups, 1, Len(groups) - 1))
             data == groups[Len(groups)].data
         IN  IF front.raised # ""
             THEN front
             ELSE IF qubit_a \notin DOMAIN data \/ qubit_b \notin DOMAIN data
                  THEN [raised |-> "KeyError", parameters |-> <<>>]
                  ELSE LET a == qubit_from_proto_id(data[qubit_a])
                           b == qubit_from_proto_id(data[qubit_b])
                       IN  [raised |-> "",
                            parameters |->
                                (<<a, b>> :> [theta |-> data_get(data, est("theta")),
                                              zeta |-> data_get(data, est("zeta")),
                                              chi |-> data_get(data, est("chi")),
                                              gamma |-> data_get(data, est("gamma")),
                                              phi |-> data_get(data, est("phi"))])
                                @@ front.parameters]

\* FloquetPhasedFSimCalibrationRequest.parse_result(self, result), with the
\* entries of result.metrics['angles'] in the order they are iterated.
floquet_parse_result(request, entries) ==
    LET decoded == decode(entries)
        read == parse_groups(decoded.groups)
    IN  IF decoded.raised # ""
        THEN [done |-> TRUE, raised |-> decoded.raised, result |-> <<>>]
        ELSE IF read.raised # ""
             THEN [done |-> TRUE, raised |-> read.raised, result |-> <<>>]
             ELSE [done |-> TRUE, raised |-> "",
                   result |-> parse_result(request, read.parameters)]

\* The requests that parse: they differ in gate, gate set and options.
ParseRequests ==
    { [gate |-> "FSimPi4", gate_set |-> "SQRT_ISWAP_GATESET",
       pairs |-> <<<<0, 1>>, <<2, 3>>>>, options |-> "ALL"],
      [gate |-> "FSimPi8", gate_set |-> "FSIM_GATESET",
       pairs |-> <<<<0, 1>>, <<2, 3>>>>, options |-> "WITHOUT_CHI"] }

\* Metric entries naming a qubit: groups 0 and 1, where group 1 can name
\* the pair of group 0 or another one.
QubitEntries ==
    { [key |-> <<"0", "_">> \o qubit_a, value |-> <<"0", "_", "0">>],
      [key |-> <<"0", "_">> \o qubit_b, value |-> <<"0", "_", "1">>],
      [key |-> <<"1", "_">> \o qubit_a, value |-> <<"0", "_", "0">>],
      [key |-> <<"1", "_">> \o qubit_a, value |-> <<"0", "_", "2">>],
      [key |-> <<"1", "_">> \o qubit_b, value |-> <<"0", "_", "1">>] }

\* Metric entries with a number: estimated angles of the groups 0 and 1
\* ('01' is the index 1), and keys that re.match rejects.
NumberEntries ==
    { [key |-> <<"0", "_">> \o est("theta"), value |-> 3],
      [key |-> <<"0", "_">> \o est("zeta"), value |-> 5],
      [key |-> <<"0", "_">> \o est("chi"), value |-> 7],
      [key |-> <<"1", "_">> \o est("gamma"), value |-> 9],
      [key |-> <<"0", "1", "_">> \o est("phi"), value |-> 11],
      [key |-> <<"1", "_">> \o est("phi"), value |-> 13],
      [key |-> est("theta"), value |-> 3],
      [key |-> <<"-", "1", "_">> \o est("zeta"), value |-> 5],
      [key |-> <<"1", "_">>, value |-> 7],
      [key |-> <<"1">> \o est("chi"), value |-> 7] }

InitParse ==
    /\ CircuitIdle
    /\ gates_translator = "sqrt_iswap"
    /\ options = "ALL"
    /\ gate_set = "SQRT_ISWAP_GATESET"
    /\ calibrations = <<>>
    /\ MomentIdle
    /\ RunIdle
    /\ ParametersIdle
    /\ CorrectedIdle
    /\ CompensatedIdle
    /\ floquet_request \in ParseRequests
    /\ angles = <<>>
    /\ parsed = NotParsed

\* The backend's result gains one more entry before it is parsed.
AddMetric ==
    /\ ~parsed.done
    /\ Len(angles) < MaxMetrics
    /\ \/ \E entry \in QubitEntries : angles' = Append(angles, entry)
       \/ \E entry \in NumberEntries : angles' = Append(angles, entry)
    /\ UNCHANGED <<floquet_request, parsed>>
    /\ UNCHANGED <<circuit_vars, gates_translator, options, gate_set, calibrations,
                   moment_vars, run_vars, parameters_vars, corrected_vars,
                   compensated_vars>>

ParseResult ==
    /\ ~parsed.done
    /\ parsed' = floquet_parse_result(floquet_request, angles)
    /\ UNCHANGED <<floquet_request, angles>>
    /\ UNCHANGED <<circuit_vars, gates_translator, options, gate_set, calibrations,
                   moment_vars, run_vars, parameters_vars, corrected_vars,
                   compensated_vars>>

NextParse == AddMetric \/ ParseResult

SpecParse == InitParse /\ [][NextParse]_vars

\* Vocabulary of C35, read off the entries themselves. A key has the form
\* '<non-negative integer>_<field>' when some non-empty run of digits at its
\* start is followed by "_" and a non-empty field.
PrefixLengths(key) ==
    {d \in 1 .. Len(key) - 2 : (\A i \in 1 .. d : IsDigit(key[i])) /\ key[d + 1] = "_"}

WellFormed(key) == PrefixLengths(key) # {}

Malformed == \E i \in 1 .. Len(angles) : ~WellFormed(angles[i].key)

GroupOf(i) ==
    LET key == angles[i].key
    IN  int(SubSeq(key, 1, CHOOSE d \in PrefixLengths(key) : TRUE))

FieldOf(i) ==
    LET key == angles[i].key
    IN  SubSeq(key, (CHOOSE d \in PrefixLengths(key) : TRUE) + 2, Len(key))

GroupIndices == {GroupOf(i) : i \in {j \in 1 .. Len(angles) : WellFormed(angles[j].key)}}

EntriesOf(g, field) ==
    {i \in 1 .. Len(angles) :
        WellFormed(angles[i].key) /\ GroupOf(i) = g /\ FieldOf(i) = field}

GroupHas(g, field) == EntriesOf(g, field) # {}

\* The value of the group's last entry with the field.
GroupValue(g, field) ==
    angles[CHOOSE i \in EntriesOf(g, field) : \A j \in EntriesOf(g, field) : j <= i].value

HasPair(g) == GroupHas(g, qubit_a) /\ GroupHas(g, qubit_b)

PairOf(g) ==
    <<qubit_from_proto_id(GroupValue(g, qubit_a)),
      qubit_from_proto_id(GroupValue(g, qubit_b))>>

\* The position of the first entry of the group.
FirstSeen(g) ==
    CHOOSE i \in 1 .. Len(angles) :
        /\ WellFormed(angles[i].key) /\ GroupOf(i) = g
        /\ \A j \in 1 .. (i - 1) : WellFormed(angles[j].key) => GroupOf(j) # g

\* The record has each of the five angles set, to the group's estimate,
\* exactly when the group has '<angle>_est'.
AnglesOfGroup(g, record) ==
    \A angle \in {"theta", "zeta", "chi", "gamma", "phi"} :
        IF GroupHas(g, est(angle))
        THEN record[angle] # None /\ record[angle] = GroupValue(g, est(angle))
        ELSE record[angle] = None

RequestCopied ==
    /\ parsed.result.gate = floquet_request.gate
    /\ parsed.result.gate_set = floquet_request.gate_set
    /\ parsed.result.options = floquet_request.options

DecodingError == parsed.raised = "ValueError: Unknown metric name" /\ parsed.result = <<>>

\* C35 as stated: when every key has the form '<non-negative integer>_<field>',
\* parse_result returns a result with the request's gate, gate set and
\* options and one record per group, keyed by the group's (qubit_a, qubit_b),
\* with each angle set exactly when the group has '<angle>_est'; when some
\* key does not have the form, it raises a decoding error and returns nothing.
C35_OneRecordPerGroup ==
    parsed.done
    => IF Malformed
       THEN DecodingError
       ELSE /\ parsed.raised = ""
            /\ RequestCopied
            /\ Cardinality(DOMAIN parsed.result.parameters) = Cardinality(GroupIndices)
            /\ \A g \in GroupIndices :
                  /\ HasPair(g)
                  /\ PairOf(g) \in DOMAIN parsed.result.parameters
                  /\ AnglesOfGroup(g, parsed.result.parameters[PairOf(g)])

\* No group first seen after g names the pair of g.
LastOfItsPair(g) ==
    \A h \in GroupIndices : PairOf(h) = PairOf(g) => FirstSeen(h) <= FirstSeen(g)

\* C35, amended: parse_result raises a decoding error and returns nothing
\* when some key does not have the form '<non-negative integer>_<field>';
\* otherwise it raises KeyError when some group lacks qubit_a or qubit_b;
\* otherwise it returns a result with the request's gate, gate set and
\* options and one record per pair (qubit_a, qubit_b) named by a group: the
\* record of the last group naming the pair, with each angle set exactly
\* when that group has '<angle>_est'.
C35_OneRecordPerPair ==
    parsed.done
    => IF Malformed
       THEN DecodingError
       ELSE IF \E g \in GroupIndices : ~HasPair(g)
            THEN parsed.raised = "KeyError" /\ parsed.result = <<>>
            ELSE /\ parsed.raised = ""
                 /\ RequestCopied
                 /\ DOMAIN parsed.result.parameters = {PairOf(g) : g \in GroupIndices}
                 /\ \A g \in GroupIndices :
                       LastOfItsPair(g)
                       => AnglesOfGroup(g, parsed.result.parameters[PairOf(g)])

\* A result was returned with a record that has theta set and chi unset.
C35_Witness ==
    /\ parsed.done
    /\ parsed.raised = ""
    /\ \E pair \in DOMAIN parsed.result.parameters :
          /\ parsed.result.parameters[pair].theta # None
          /\ parsed.result.parameters[pair].chi = None

====
